---- MODULE Spec2Model ----
(***************************************************************************)
(* Orchestration model of the agent scripts of ai-agents-101:              *)
(*   "mcp" : 02-agent-mcp-calendar.py   (handoff dispatch loop)            *)
(*   "pa"  : personal-assitant/init.py  (fan-out batches + dispatch loop)  *)
(*   "par" : 03-parallel-multi-agent.py (one fan-out batch + decision)     *)
(* The language model and the calendar backend are the environment: what   *)
(* an invocation produces (tool calls, handoff attempts, messages, or a    *)
(* failure) is chosen nondeterministically; what the scripts do with it    *)
(* is translated from their code.                                          *)
(***************************************************************************)
EXTENDS Integers, Sequences, FiniteSets, TLC

VARIABLES
    script,          \* which script's main() is running
    pc,              \* position of main(): the prompt or await it is suspended at
    handoffs,        \* agent name -> set of declared handoff targets (Agent.handoffs)
    current_agent,   \* the dispatch loop's current_agent ("none" while unassigned)
    user_input,      \* the last line read into user_input / leave_request
    call,            \* the sequential Runner.run invocation in flight, or NoCall
    result,          \* the last RunResult bound by main(), or NoResult
    batch,           \* the asyncio.gather batch in flight: one record per branch
    questions_asked, \* init.py: local counter of the clarifying-question loop
    context_storage, \* tools.py: the process-wide context dictionary
    ops,             \* the tools.py calls made so far by a direct caller, with their returns
    halt,            \* why main() stopped: "none", "goodbye", "complete", "error"
    error,           \* the exception that ended main(), NoError if there is none
    agents,          \* the names of the Agent objects constructed, in order of construction
    conversations_db, \* 02-short-term-memory.py: the items of session "user_123" in
                     \* conversations.db, and the history the run in flight loaded
    rendered,        \* what the `for new_item in result.new_items` loop has printed
                     \* for the result bound to `result`
    cursor,          \* the number of items of `result` that loop has consumed
    tools,           \* Agent.tools of every agent, by name of the tool
    mcp_servers,     \* the connectors of every agent: Agent.mcp_servers, and the
                     \* HostedMCPTool of 03-parallel-multi-agent.py
    exiting          \* the user has decided to answer every prompt with an exit word

vars == << script, pc, handoffs, current_agent, user_input, call, result, batch,
           questions_asked, context_storage, ops, halt, error, agents, conversations_db,
           rendered, cursor, tools, mcp_servers, exiting >>

----------------------------------------------------------------------------
(* Bounds *)

\* longest chain of handoff attempts the model makes inside one Runner.run
MaxHops == 2

\* number of tools.py calls a direct caller makes in a row
MaxOps == 3

\* number of save_event_context calls one branch of a gather makes
MaxSaves == 1

\* number of Agent objects a setup constructs
MaxAgents == 3

\* number of earlier executions of 02-short-term-memory.py kept in conversations.db
MaxPriorRuns == 1

----------------------------------------------------------------------------
(* Lines of user input: a line is a sequence of one-character strings *)

Whitespace == {" ", "\t"}

ToLower(c) ==
    CASE c = "B" -> "b" [] c = "E" -> "e" [] c = "I" -> "i" [] c = "Q" -> "q"
      [] c = "T" -> "t" [] c = "U" -> "u" [] c = "X" -> "x" [] c = "Y" -> "y"
      [] OTHER -> c

\* str.lower()
Lower(s) == [i \in 1..Len(s) |-> ToLower(s[i])]

RECURSIVE LStrip(_)
LStrip(s) ==
    IF s = << >> THEN << >>
    ELSE IF Head(s) \in Whitespace THEN LStrip(Tail(s)) ELSE s

RECURSIVE RStrip(_)
RStrip(s) ==
    IF s = << >> THEN << >>
    ELSE IF s[Len(s)] \in Whitespace THEN RStrip(SubSeq(s, 1, Len(s) - 1)) ELSE s

\* str.strip()
Strip(s) == RStrip(LStrip(s))

ExitTokens == { <<"e","x","i","t">>, <<"q","u","i","t">>, <<"b","y","e">> }

\* variant: the comparison without .lower()
IsExitCaseSensitive(s) == s = << >> \/ s \in ExitTokens

\* `not user_input or user_input.lower() in ["exit", "quit", "bye"]`
IsExit(s) == s = << >> \/ Lower(s) \in ExitTokens

\* the lines the user types at a prompt
RawInputs ==
    { << >>,
      <<" ", "\t">>,
      <<"e","x","i","t">>,
      <<" ","E","x","I","T"," ">>,
      <<"Q","U","I","T">>,
      <<"b","y","e","\t">>,
      <<"y","e","s">>,
      <<" ","e","x","i","t"," ","x">> }

\* The input of an invocation: a fixed prompt text, a line taken from the user or
\* from a message, and the labelled parts of a composite.
RunInput(prompt, line, parts) == [prompt |-> prompt, line |-> line, parts |-> parts]

UserLine(line) == RunInput("", line, << >>)

\* the fixed inputs main() sends by itself
ContinuePrompt == RunInput("Continue with planning", << >>, << >>)
ExecutePrompt  == RunInput("Execute the approved plan", << >>, << >>)

----------------------------------------------------------------------------
(* Agents and handoff edges *)

McpAgents ==
    {"ConflictChecker", "NegotiatorAgent", "PlannerAgent", "ReviewerAgent", "CalendarAgent"}

\* variant: the edge ConflictChecker -> PlannerAgent is left out
McpHandoffsNoDirectPlanner ==
    [a \in McpAgents |->
        CASE a = "ConflictChecker" -> {"NegotiatorAgent"}
          [] a = "NegotiatorAgent" -> {"PlannerAgent"}
          [] a = "PlannerAgent"    -> {"ReviewerAgent"}
          [] a = "ReviewerAgent"   -> {"CalendarAgent", "PlannerAgent"}
          [] a = "CalendarAgent"   -> {}]

\* 02-agent-mcp-calendar.py, the second (setup) pass
McpHandoffs ==
    [a \in McpAgents |->
        CASE a = "ConflictChecker" -> {"NegotiatorAgent", "PlannerAgent"}
          [] a = "NegotiatorAgent" -> {"PlannerAgent"}
          [] a = "PlannerAgent"    -> {"ReviewerAgent"}
          [] a = "ReviewerAgent"   -> {"CalendarAgent", "PlannerAgent"}
          [] a = "CalendarAgent"   -> {}]

PaGraphAgents ==
    {"ConflictOrchestrator", "NegotiatorAgent", "PlanningOrchestrator", "ReviewerAgent",
     "CalendarAgent"}

ConflictBranches == <<"CalendarConflictChecker", "RoutineConflictChecker">>
PlanBranches     == <<"ConservativePlanner", "EfficientPlanner", "BudgetPlanner">>
EnrichBranches   == <<"VendorResearcher", "BudgetEstimator">>

Range(s) == {s[i] : i \in 1..Len(s)}

PaAgents ==
    PaGraphAgents \cup Range(ConflictBranches) \cup Range(PlanBranches)
        \cup Range(EnrichBranches)

\* variant: an enrichment agent is given ReviewerAgent as a handoff
PaHandoffsBranchTransfers ==
    [a \in PaAgents |->
        CASE a = "ConflictOrchestrator" -> {"NegotiatorAgent", "PlanningOrchestrator"}
          [] a = "NegotiatorAgent"      -> {"PlanningOrchestrator"}
          [] a = "PlanningOrchestrator" -> {"ReviewerAgent"}
          [] a = "ReviewerAgent"        -> {"CalendarAgent", "PlanningOrchestrator"}
          [] a = "VendorResearcher"     -> {"ReviewerAgent"}
          [] OTHER                       -> {}]

\* personal-assitant/init.py, SETUP HANDOFFS; agents built without handoffs keep
\* the empty default
PaHandoffs ==
    [a \in PaAgents |->
        CASE a = "ConflictOrchestrator" -> {"NegotiatorAgent", "PlanningOrchestrator"}
          [] a = "NegotiatorAgent"      -> {"PlanningOrchestrator"}
          [] a = "PlanningOrchestrator" -> {"ReviewerAgent"}
          [] a = "ReviewerAgent"        -> {"CalendarAgent", "PlanningOrchestrator"}
          [] OTHER                       -> {}]

ParBranches == <<"leave_policy_agent", "calendar_agent">>

ParAgents == Range(ParBranches) \cup {"decision_agent"}

\* 03-parallel-multi-agent.py: no agent is given handoffs
ParHandoffs == [a \in ParAgents |-> {}]

\* 02-short-term-memory.py: one agent, no handoffs
MemAgents == {"Assistant"}

MemHandoffs == [a \in MemAgents |-> {}]

\* the agents in the order in which each script constructs them
McpConstructed ==
    <<"ConflictChecker", "NegotiatorAgent", "PlannerAgent", "ReviewerAgent", "CalendarAgent">>

PaConstructed ==
    <<"CalendarConflictChecker", "RoutineConflictChecker", "ConflictOrchestrator",
      "NegotiatorAgent", "ConservativePlanner", "EfficientPlanner", "BudgetPlanner",
      "PlanningOrchestrator", "VendorResearcher", "BudgetEstimator", "ReviewerAgent",
      "CalendarAgent">>

ParConstructed == <<"leave_policy_agent", "calendar_agent", "decision_agent">>

MemConstructed == <<"Assistant">>

ConstructedOf(s) ==
    CASE s = "mcp" -> McpConstructed [] s = "pa" -> PaConstructed
      [] s = "par" -> ParConstructed [] s = "memory" -> MemConstructed

Scripts == {"mcp", "pa", "par"}

AgentsOf(s) ==
    CASE s = "mcp" -> McpAgents [] s = "pa" -> PaAgents [] s = "par" -> ParAgents
      [] s = "memory" -> MemAgents

\* variant: CalendarAgent is given ReviewerAgent as a handoff
HandoffsOfCalendarReturns(s) ==
    CASE s = "mcp" -> [McpHandoffs EXCEPT !["CalendarAgent"] = {"ReviewerAgent"}]
      [] s = "pa" -> [PaHandoffs EXCEPT !["CalendarAgent"] = {"ReviewerAgent"}]
      [] s = "par" -> ParHandoffs
      [] s = "memory" -> MemHandoffs

HandoffsOf(s) ==
    CASE s = "mcp" -> McpHandoffs [] s = "pa" -> PaHandoffs [] s = "par" -> ParHandoffs
      [] s = "memory" -> MemHandoffs

\* the names a model can ask to be transferred to: the agents of the handoff graph
TargetsOf(s) ==
    CASE s = "mcp" -> McpAgents [] s = "pa" -> PaGraphAgents [] s = "par" -> ParAgents
      [] s = "memory" -> MemAgents

\* the agent that checks for conflicts and the planner it routes to
CheckerOf(s) == IF s = "mcp" THEN "ConflictChecker" ELSE "ConflictOrchestrator"
PlannerOf(s) == IF s = "mcp" THEN "PlannerAgent" ELSE "PlanningOrchestrator"

\* variant: the routine checker is given the calendar server as well
CalendarHoldersBothCheckers(s) ==
    CASE s = "mcp" -> {"ConflictChecker", "NegotiatorAgent", "CalendarAgent"}
      [] s = "pa"  -> {"CalendarConflictChecker", "RoutineConflictChecker",
                       "NegotiatorAgent", "CalendarAgent"}
      [] s = "par" -> {"calendar_agent"}
      [] OTHER     -> {}

\* the agents built with the calendar connector: `mcp_servers=[calendar_server]`,
\* in 03-parallel-multi-agent.py the HostedMCPTool "google_calendar"
CalendarHolders(s) ==
    CASE s = "mcp" -> {"ConflictChecker", "NegotiatorAgent", "CalendarAgent"}
      [] s = "pa"  -> {"CalendarConflictChecker", "NegotiatorAgent", "CalendarAgent"}
      [] s = "par" -> {"calendar_agent"}
      [] OTHER     -> {}

\* the operations the calendar server offers to every agent that holds it
CalendarOperations == {"list-events", "create-event", "update-event", "delete-event"}

\* the operations among them that change the calendar
CalendarWrites == {"create-event", "update-event", "delete-event"}

\* what agent a can call on the calendar: the server is attached whole, no agent
\* is given a filtered list of its operations
CalendarToolsOf(s, a) == IF a \in CalendarHolders(s) THEN CalendarOperations ELSE {}

----------------------------------------------------------------------------
(* Run items and results *)

\* message texts the model produces; "?" in a text marks a question
Texts == { <<"o","k">>, <<"o","k","?">> }

MessageOutputItem(a, t) == [type |-> "message", agent |-> a, target |-> "none", text |-> t]
HandoffOutputItem(a, b) == [type |-> "handoff", agent |-> a, target |-> b, text |-> << >>]
ToolCallItem(a)         == [type |-> "tool_call", agent |-> a, target |-> "none", text |-> << >>]

IsMessage(item) == item.type = "message"
IsHandoff(item) == item.type = "handoff"

NoCall   == [agent |-> "none", input |-> UserLine(<< >>), session |-> FALSE]
NoError  == [kind |-> "none", agent |-> "none", target |-> "none"]
NoResult == [last_agent |-> "none", new_items |-> << >>, finding |-> "none"]

\* a session with no items, loaded by no run
NoSession == [items |-> << >>, loaded |-> << >>]

Invocation(a, inp, sess) == [agent |-> a, input |-> inp, session |-> sess]

\* ItemHelpers.text_message_outputs: the texts of the message items, concatenated
RECURSIVE text_message_outputs(_)
text_message_outputs(items) ==
    IF items = << >> THEN << >>
    ELSE (IF IsMessage(Head(items)) THEN Head(items).text ELSE << >>)
            \o text_message_outputs(Tail(items))

\* `any(isinstance(item, MessageOutputItem) for item in result.new_items)`
HasMessage(items) == \E i \in 1..Len(items) : IsMessage(items[i])

\* has_question of the clarifying-question loop: some message text contains "?"
HasQuestion(items) ==
    \E i \in 1..Len(items) : IsMessage(items[i]) /\ "?" \in Range(items[i].text)

\* target of the last handoff item, or dflt when there is none
RECURSIVE LastHandoffTarget(_, _)
LastHandoffTarget(items, dflt) ==
    IF items = << >> THEN dflt
    ELSE LastHandoffTarget(Tail(items),
                           IF IsHandoff(Head(items)) THEN Head(items).target ELSE dflt)

----------------------------------------------------------------------------
(* Runner.run: what one agent invocation does with the model's output *)

\* The routing the checker's instructions prescribe for its finding:
\* conflicts -> NegotiatorAgent, no conflicts -> directly the planner.
InstructedTarget(s, finding) ==
    IF finding = "conflicts" THEN "NegotiatorAgent" ELSE PlannerOf(s)

\* the agents launched inside a gather
BranchAgents ==
    Range(ConflictBranches) \cup Range(PlanBranches) \cup Range(EnrichBranches)
        \cup Range(ParBranches)

\* What a model may end its invocation with: no message, or one message.  Only the
\* agents of the handoff graph talk to the user and may ask a question.
Endings(a) ==
    IF a \in BranchAgents THEN { << >>, << <<"o","k">> >> }
    ELSE {<< >>} \cup {<<t>> : t \in Texts}

\* Tool-call items are looked at by 02-agent-mcp-calendar.py only; the results of the
\* other scripts are modelled without them.
ToolUses(s) == IF s = "mcp" THEN BOOLEAN ELSE {FALSE}

\* variant: any transfer the model asks for is made
HandoffUnchecked(h, a, b) == TRUE

\* A transfer from a to b is available iff b is among a's declared handoffs
HandoffAllowed(h, a, b) == b \in h[a]

\* follow the transfers the model asks for, from agent a on
RECURSIVE Follow(_, _, _)
Follow(h, a, hops) ==
    IF hops = << >> THEN [ok |-> TRUE, last |-> a, items |-> << >>, asked |-> "none"]
    ELSE IF HandoffAllowed(h, a, Head(hops))
         THEN LET r == Follow(h, Head(hops), Tail(hops))
              IN  [ok |-> r.ok, last |-> r.last,
                   items |-> <<HandoffOutputItem(a, Head(hops))>> \o r.items,
                   asked |-> r.asked]
         ELSE [ok |-> FALSE, last |-> a, items |-> << >>, asked |-> Head(hops)]

\* The chains of at most n transfers a model can ask for starting at agent a: it
\* asks for the next transfer only after the one before was made.
RECURSIVE HopSeqs(_, _, _, _)
HopSeqs(s, h, a, n) ==
    {<< >>} \cup
    (IF n = 0 THEN {}
     ELSE UNION { IF HandoffAllowed(h, a, b)
                  THEN { <<b>> \o rest : rest \in HopSeqs(s, h, b, n - 1) }
                  ELSE { <<b>> } : b \in TargetsOf(s) })

\* the chains a model running as agent a can ask for; none when no agent runs
AskedHops(s, h, a) == IF a \in AgentsOf(s) THEN HopSeqs(s, h, a, MaxHops) ELSE {}

\* What the model may do in one invocation of agent a: use a tool or not, ask for
\* a chain of transfers, end with a message or not.  A checker that reached a
\* finding starts with the transfer its instructions prescribe.
Attempts(s, h, a) ==
    IF a \notin AgentsOf(s) THEN {}
    ELSE
    { att \in [finding : {"none", "clear", "conflicts"},
               hops    : AskedHops(s, h, a),
               tool    : ToolUses(s),
               msg     : Endings(a)] :
        IF a = CheckerOf(s) /\ s # "par"
        THEN att.finding # "none" =>
                /\ Len(att.hops) >= 1
                /\ att.hops[1] = InstructedTarget(s, att.finding)
        ELSE att.finding = "none" }

\* the outcome of Runner.run(a, ...) for the model behaviour att
RunResult(h, a, att) ==
    LET f == Follow(h, a, att.hops)
    IN  [ok         |-> f.ok,
         last_agent |-> f.last,
         finding    |-> att.finding,
         new_items  |-> (IF att.tool THEN <<ToolCallItem(a)>> ELSE << >>)
                            \o f.items
                            \o (IF att.msg = << >> THEN << >>
                                ELSE <<MessageOutputItem(f.last, att.msg[1])>>)]

\* the part of a run outcome main() binds to `result`
Bound(r) == [last_agent |-> r.last_agent, new_items |-> r.new_items, finding |-> r.finding]

----------------------------------------------------------------------------
(* tools.py: the context store *)

\* Python values, in one record shape
PyInt(n)  == [tag |-> "int",  n |-> n, s |-> << >>]
PyStr(s)  == [tag |-> "str",  n |-> 0, s |-> s]
PyNone    == [tag |-> "none", n |-> 0, s |-> << >>]
PyFalse   == [tag |-> "bool", n |-> 0, s |-> << >>]
PyEmptyList == [tag |-> "list", n |-> 0, s |-> << >>]
\* a key the dictionary does not hold
Absent    == [tag |-> "absent", n |-> 0, s |-> << >>]

Keys ==
    {"questions_asked", "max_questions", "conflicts_detected", "plan_approved",
     "final_plan", "vendor_recommendations", "budget_estimate", "event_date"}

\* context_storage as the module defines it
InitialContext ==
    [k \in Keys |->
        CASE k = "questions_asked"    -> PyInt(0)
          [] k = "max_questions"      -> PyInt(3)
          [] k = "conflicts_detected" -> PyEmptyList
          [] k = "plan_approved"      -> PyFalse
          [] OTHER                    -> Absent]

\* dict.get(key): None for a key that is not there
DictGet(d, k) == IF d[k] = Absent THEN PyNone ELSE d[k]

\* d[key] = value
DictSet(d, k, v) == [d EXCEPT ![k] = v]

\* an exception raised by a call
PyRaise(e) == [tag |-> "raise", n |-> 0, s |-> <<e>>]

\* variant: a key that is already there keeps its value
save_event_context_keep_first(d, k, v) == IF d[k] = Absent THEN DictSet(d, k, v) ELSE d

\* save_event_context(key, value): the store afterwards, and the string returned
save_event_context(d, k, v) == DictSet(d, k, v)
SavedMessage(k) == PyStr(<<"Saved: ", k>>)

\* get_event_context(key)
get_event_context(d, k) == DictGet(d, k)

\* set_context_value(key, value): the store afterwards; returns None
set_context_value(d, k, v) == DictSet(d, k, v)

\* get_context_value(key)
get_context_value(d, k) == DictGet(d, k)

\* `context_storage.get("questions_asked", 0) + 1`: adding 1 to anything but an
\* int raises TypeError
IncrementedQuestions(d) ==
    LET cur == IF d["questions_asked"] = Absent THEN PyInt(0) ELSE d["questions_asked"]
    IN  IF cur.tag = "int" THEN PyInt(cur.n + 1) ELSE PyRaise("TypeError")

\* increment_questions(): the store afterwards (unchanged when the sum raises)
increment_questions(d) ==
    IF IncrementedQuestions(d).tag = "raise" THEN d
    ELSE DictSet(d, "questions_asked", IncrementedQuestions(d))

\* clear_context(): context_storage.clear() and the update with the four entries
clear_context(d) ==
    [k \in Keys |->
        CASE k = "questions_asked"    -> PyInt(0)
          [] k = "max_questions"      -> PyInt(10)
          [] k = "conflicts_detected" -> PyEmptyList
          [] k = "plan_approved"      -> PyFalse
          [] OTHER                    -> Absent]

----------------------------------------------------------------------------
(* The tools and connectors the agents are built with *)

\* 02-agent-mcp-calendar.py: `tools=[...]` of each Agent(...)
McpTools ==
    [a \in McpAgents |->
        CASE a = "ConflictChecker" -> {"get_todays_date", "get_user_routine", "save_event_context"}
          [] a = "NegotiatorAgent" -> {"save_event_context", "get_event_context", "get_user_routine"}
          [] a = "PlannerAgent"    -> {"get_user_routine", "save_event_context", "get_event_context",
                                       "increment_questions", "can_ask_more_questions",
                                       "get_todays_date"}
          [] a = "ReviewerAgent"   -> {"get_event_context", "get_user_routine"}
          [] a = "CalendarAgent"   -> {"get_event_context", "get_user_routine", "get_todays_date"}]

\* variant: the budget planner is given save_event_context as well
PaToolsPlannerSaves ==
    [a \in PaAgents |->
        CASE a = "CalendarConflictChecker" -> {"get_todays_date", "save_event_context"}
          [] a = "RoutineConflictChecker"  -> {"get_user_routine", "save_event_context"}
          [] a = "ConflictOrchestrator"    -> {"get_todays_date", "get_user_routine",
                                               "save_event_context"}
          [] a = "NegotiatorAgent"         -> {"save_event_context", "get_event_context",
                                               "get_user_routine"}
          [] a = "BudgetPlanner"           -> {"get_user_routine", "get_event_context",
                                               "get_todays_date", "save_event_context"}
          [] a \in Range(PlanBranches)     -> {"get_user_routine", "get_event_context",
                                               "get_todays_date"}
          [] a = "PlanningOrchestrator"    -> {"get_user_routine", "save_event_context",
                                               "get_event_context", "increment_questions",
                                               "get_todays_date"}
          [] a = "VendorResearcher"        -> {"WebSearchTool", "get_event_context"}
          [] a = "BudgetEstimator"         -> {"get_event_context"}
          [] a = "ReviewerAgent"           -> {"get_event_context", "get_user_routine"}
          [] a = "CalendarAgent"           -> {"get_event_context", "get_user_routine",
                                               "get_todays_date"}]

\* personal-assitant/init.py: `tools=[...]` of each Agent(...)
PaTools ==
    [a \in PaAgents |->
        CASE a = "CalendarConflictChecker" -> {"get_todays_date", "save_event_context"}
          [] a = "RoutineConflictChecker"  -> {"get_user_routine", "save_event_context"}
          [] a = "ConflictOrchestrator"    -> {"get_todays_date", "get_user_routine",
                                               "save_event_context"}
          [] a = "NegotiatorAgent"         -> {"save_event_context", "get_event_context",
                                               "get_user_routine"}
          [] a \in Range(PlanBranches)     -> {"get_user_routine", "get_event_context",
                                               "get_todays_date"}
          [] a = "PlanningOrchestrator"    -> {"get_user_routine", "save_event_context",
                                               "get_event_context", "increment_questions",
                                               "get_todays_date"}
          [] a = "VendorResearcher"        -> {"WebSearchTool", "get_event_context"}
          [] a = "BudgetEstimator"         -> {"get_event_context"}
          [] a = "ReviewerAgent"           -> {"get_event_context", "get_user_routine"}
          [] a = "CalendarAgent"           -> {"get_event_context", "get_user_routine",
                                               "get_todays_date"}]

\* 03-parallel-multi-agent.py
ParTools ==
    [a \in ParAgents |->
        CASE a = "leave_policy_agent" -> {"FileSearchTool"}
          [] a = "calendar_agent"     -> {"get_todays_date", "HostedMCPTool"}
          [] a = "decision_agent"     -> {}]

\* 02-short-term-memory.py: the agent is built without tools
MemTools == [a \in MemAgents |-> {}]

ToolsOf(s) ==
    CASE s = "mcp" -> McpTools [] s = "pa" -> PaTools [] s = "par" -> ParTools
      [] s = "memory" -> MemTools

\* the connector each agent is built with
ConnectorsOf(s) ==
    [a \in AgentsOf(s) |-> IF a \in CalendarHolders(s) THEN {"GoogleCalendar"} ELSE {}]

\* the tools that write to context_storage
WritingTools == {"save_event_context", "increment_questions"}

----------------------------------------------------------------------------
(* Start of main(): agents built, handoffs assigned, nothing read yet *)

Init ==
    /\ script \in Scripts
    /\ pc = (IF script = "pa" THEN "first_prompt" ELSE "prompt")
    /\ handoffs = HandoffsOf(script)
    /\ current_agent = (IF script = "mcp" THEN "ConflictChecker" ELSE "none")
    /\ user_input = << >>
    /\ call = NoCall
    /\ result = NoResult
    /\ batch = << >>
    /\ questions_asked = 0
    /\ context_storage = InitialContext
    /\ ops = << >>
    /\ halt = "none"
    /\ error = NoError
    /\ agents = ConstructedOf(script)
    /\ conversations_db = NoSession
    /\ rendered = << >>
    /\ cursor = 0
    /\ tools = ToolsOf(script)
    /\ mcp_servers = ConnectorsOf(script)
    /\ exiting = FALSE

\* variant: after the farewell the loop asks again
GoodbyeAsksAgain ==
    /\ pc' = "prompt"
    /\ halt' = halt
    /\ call' = NoCall

\* `print("Goodbye!")` followed by break / return
Goodbye ==
    /\ pc' = "done"
    /\ halt' = "goodbye"
    /\ call' = NoCall

\* variant: the run is started as a task and main() goes on without awaiting it
StartRunDetached(a, inp, sess, at) ==
    /\ pc' = pc
    /\ call' = Invocation(a, inp, sess)

\* main() starts `await Runner.run(a, inp, ...)` and is suspended at `at`
StartRun(a, inp, sess, at) ==
    /\ pc' = at
    /\ call' = Invocation(a, inp, sess)

----------------------------------------------------------------------------
(* 02-agent-mcp-calendar.py: the dispatch loop *)

\* the loop's terminal test on the agent and items of the step just made
McpTerminal(agent, items) == agent = "CalendarAgent" /\ HasMessage(items)

\* `user_input = input("You: ").strip()`, the exit test, and the start of the run
McpReadInput(line) ==
    /\ script = "mcp"
    /\ pc = "prompt"
    /\ user_input' = Strip(line)
    /\ IF IsExit(user_input')
       THEN Goodbye
       ELSE /\ StartRun(current_agent, UserLine(user_input'), TRUE, "await_run")
            /\ halt' = halt
    /\ UNCHANGED << exiting, tools, mcp_servers, rendered, cursor, script, agents, conversations_db, handoffs, current_agent, result, batch, questions_asked,
                    context_storage, ops, error >>

\* variant: an agent that has handed off loses the edge it used
McpRunReturnsDroppingEdge(att) ==
    /\ script = "mcp"
    /\ pc = "await_run"
    /\ LET r == RunResult(handoffs, call.agent, att)
       IN  /\ r.ok
           /\ result' = Bound(r)
           /\ current_agent' = r.last_agent
           /\ handoffs' = IF att.hops = << >> THEN handoffs
                          ELSE [handoffs EXCEPT ![call.agent] = @ \ {att.hops[1]}]
           /\ IF McpTerminal(r.last_agent, r.new_items)
              THEN pc' = "done" /\ halt' = "complete"
              ELSE pc' = "prompt" /\ halt' = halt
    /\ call' = NoCall
    /\ UNCHANGED << exiting, tools, mcp_servers, rendered, cursor, script, agents, conversations_db,
                    user_input, batch, questions_asked, context_storage, ops, error >>

\* Runner.run returns: the items are rendered, current_agent = result.last_agent,
\* then the terminal test
McpRunReturns(att) ==
    /\ script = "mcp"
    /\ pc = "await_run"
    /\ LET r == RunResult(handoffs, call.agent, att)
       IN  /\ r.ok
           /\ result' = Bound(r)
           /\ current_agent' = r.last_agent
           /\ IF McpTerminal(r.last_agent, r.new_items)
              THEN pc' = "done" /\ halt' = "complete"
              ELSE pc' = "prompt" /\ halt' = halt
    /\ call' = NoCall
    /\ UNCHANGED << exiting, tools, mcp_servers, rendered, cursor, script, agents, conversations_db, handoffs, user_input, batch, questions_asked,
                    context_storage, ops, error >>

----------------------------------------------------------------------------
(* Failing invocations: no script catches an exception of Runner.run *)

AwaitingRun == call # NoCall

\* the exception leaves main() and asyncio.run(): nothing is assigned, no result
\* of the batch in flight is bound, and the tasks still running are cancelled
Raise(e, a, b) ==
    /\ pc' = "crashed"
    /\ halt' = "error"
    /\ error' = [kind |-> e, agent |-> a, target |-> b]
    /\ call' = NoCall
    /\ batch' = << >>

\* the model or a tool fails during the sequential invocation in flight
RunRaises ==
    /\ AwaitingRun
    /\ Raise("ModelInvocationFailure", call.agent, "none")
    /\ UNCHANGED << exiting, tools, mcp_servers, rendered, cursor, script, agents, conversations_db, handoffs, current_agent, user_input, result,
                    questions_asked, context_storage, ops >>

\* variant: the transfers made before the rejected one are kept
RunRejectsHandoffAdvancing(hops) ==
    /\ AwaitingRun
    /\ LET f == Follow(handoffs, call.agent, hops)
       IN  ~ f.ok /\ Raise("UnknownTarget", f.last, f.asked) /\ current_agent' = f.last
    /\ UNCHANGED << exiting, tools, mcp_servers, rendered, cursor, script, agents, conversations_db, handoffs, user_input, result, questions_asked,
                    context_storage, ops >>

\* the model asks for a transfer the agent it runs as does not declare
RunRejectsHandoff(hops) ==
    /\ AwaitingRun
    /\ LET f == Follow(handoffs, call.agent, hops)
       IN  ~ f.ok /\ Raise("UnknownTarget", f.last, f.asked)
    /\ UNCHANGED << exiting, tools, mcp_servers, rendered, cursor, script, agents, conversations_db, handoffs, current_agent, user_input, result,
                    questions_asked, context_storage, ops >>

----------------------------------------------------------------------------
(* asyncio.gather over Runner.run coroutines: a fan-out batch *)

\* a task of the gather: `order` is its rank among the finished tasks (0 while it
\* runs), `saved` the save_event_context calls its agent has made
Branch(a, inp) ==
    [agent |-> a, input |-> inp, status |-> "running", new_items |-> << >>,
     order |-> 0, saved |-> << >>]

\* the branches as gather starts them: one task per agent, in the order given
Launch(branches, inp) == [i \in 1..Len(branches) |-> Branch(branches[i], inp)]

\* variant: the future resolves with the first task that finishes
AnyDone(b) == \E i \in 1..Len(b) : b[i].status = "done"

\* gather's future resolves when every task has finished
AllDone(b) == \A i \in 1..Len(b) : b[i].status = "done"

\* the text a branch result contributes to what follows the join
BranchText(b, i) == text_message_outputs(b[i].new_items)

\* number of tasks of the gather that have finished
DoneCount(b) == Cardinality({ i \in 1..Len(b) : b[i].status = "done" })

\* variant: the results are taken in the order in which the tasks finished
LabelledByCompletion(labels, b) ==
    [j \in 1..Len(b) |->
        LET i == CHOOSE k \in 1..Len(b) : b[k].order = j
        IN  [label |-> labels[i], text |-> BranchText(b, i)]]

\* the results under their labels, in the order of the gather call
Labelled(labels, b) == [i \in 1..Len(b) |-> [label |-> labels[i], text |-> BranchText(b, i)]]

GatherPcs == {"gather_conflict", "gather_plans", "gather_enrich", "gather"}

\* one branch's Runner.run returns; the others keep running
BranchReturns(i, att) ==
    /\ pc \in GatherPcs
    /\ i \in 1..Len(batch)
    /\ batch[i].status = "running"
    /\ LET r == RunResult(handoffs, batch[i].agent, att)
       IN  /\ r.ok
           /\ batch' = [batch EXCEPT ![i].status = "done", ![i].new_items = r.new_items,
                                     ![i].order = DoneCount(batch) + 1]
    /\ UNCHANGED << exiting, tools, mcp_servers, rendered, cursor, script, agents, conversations_db, pc, handoffs, current_agent, user_input, call, result,
                    questions_asked, context_storage, ops, halt, error >>

\* one branch's Runner.run raises: gather passes the exception on to main()
BranchRaises(i) ==
    /\ pc \in GatherPcs
    /\ i \in 1..Len(batch)
    /\ batch[i].status = "running"
    /\ Raise("ModelInvocationFailure", batch[i].agent, "none")
    /\ UNCHANGED << exiting, tools, mcp_servers, rendered, cursor, script, agents, conversations_db, handoffs, current_agent, user_input, result,
                    questions_asked, context_storage, ops >>

\* a branch's model asks for a transfer; branch agents declare none
BranchRejectsHandoff(i, hops) ==
    /\ pc \in GatherPcs
    /\ i \in 1..Len(batch)
    /\ batch[i].status = "running"
    /\ LET f == Follow(handoffs, batch[i].agent, hops)
       IN  ~ f.ok /\ Raise("UnknownTarget", f.last, f.asked)
    /\ UNCHANGED << exiting, tools, mcp_servers, rendered, cursor, script, agents, conversations_db, handoffs, current_agent, user_input, result,
                    questions_asked, context_storage, ops >>

\* the agents whose tools include save_event_context
SaveEventContextHolders ==
    { a \in DOMAIN tools : "save_event_context" \in tools[a] }

\* keys and values the checkers' models save
SaveKeys   == {"event_date", "conflicts_detected"}
SaveValues == { PyStr(<<"a">>), PyStr(<<"b">>) }

\* number of save_event_context calls the tasks of the gather have made
RECURSIVE SavedCount(_)
SavedCount(b) == IF b = << >> THEN 0 ELSE Len(Head(b).saved) + SavedCount(Tail(b))

\* variant: each task writes to a scratch copy of the store, dropped at the join
BranchSavesIsolated(i, k, v) ==
    /\ pc \in GatherPcs
    /\ i \in 1..Len(batch)
    /\ batch[i].status = "running"
    /\ batch[i].agent \in SaveEventContextHolders
    /\ Len(batch[i].saved) < MaxSaves
    /\ batch' = [batch EXCEPT ![i].saved =
                    Append(@, [key |-> k, value |-> v, seq |-> SavedCount(batch) + 1])]
    /\ UNCHANGED << exiting, tools, mcp_servers, rendered, cursor, script, agents, conversations_db, pc, handoffs, current_agent, user_input, call, result,
                    questions_asked, context_storage, ops, halt, error >>

\* the model of a running branch calls save_event_context(k, v): the tool writes to
\* the one context_storage of the process, with no lock, while the other branch runs
BranchSaves(i, k, v) ==
    /\ pc \in GatherPcs
    /\ i \in 1..Len(batch)
    /\ batch[i].status = "running"
    /\ batch[i].agent \in SaveEventContextHolders
    /\ Len(batch[i].saved) < MaxSaves
    /\ context_storage' = save_event_context(context_storage, k, v)
    /\ batch' = [batch EXCEPT ![i].saved =
                    Append(@, [key |-> k, value |-> v, seq |-> SavedCount(batch) + 1])]
    /\ UNCHANGED << exiting, tools, mcp_servers, rendered, cursor, script, agents, conversations_db, pc, handoffs, current_agent, user_input, call, result,
                    questions_asked, ops, halt, error >>

----------------------------------------------------------------------------
(* 03-parallel-multi-agent.py *)

ParLabels == <<"Policy check", "Calendar check">>

\* `leave_request = input(...)` and the gather call; the line is taken as typed
ParReadInput(line) ==
    /\ script = "par"
    /\ pc = "prompt"
    /\ user_input' = line
    /\ batch' = Launch(ParBranches, UserLine(line))
    /\ pc' = "gather"
    /\ UNCHANGED << exiting, tools, mcp_servers, rendered, cursor, script, agents, conversations_db, handoffs, current_agent, call, result, questions_asked,
                    context_storage, ops, halt, error >>

\* gather returns: combined_prompt is built and decision_agent is run on it
ParJoin ==
    /\ script = "par"
    /\ pc = "gather"
    /\ AllDone(batch)
    /\ StartRun("decision_agent",
                RunInput("Leave request: ", user_input, Labelled(ParLabels, batch)),
                FALSE, "await_decision")
    /\ batch' = << >>
    /\ UNCHANGED << exiting, tools, mcp_servers, rendered, cursor, script, agents, conversations_db, handoffs, current_agent, user_input, result,
                    questions_asked, context_storage, ops, halt, error >>

\* the decision is printed and main() returns
ParDecisionReturns(att) ==
    /\ script = "par"
    /\ pc = "await_decision"
    /\ LET r == RunResult(handoffs, call.agent, att)
       IN  /\ r.ok
           /\ result' = Bound(r)
    /\ pc' = "done"
    /\ halt' = "returned"
    /\ call' = NoCall
    /\ UNCHANGED << exiting, tools, mcp_servers, rendered, cursor, script, agents, conversations_db, handoffs, current_agent, user_input, batch,
                    questions_asked, context_storage, ops, error >>

----------------------------------------------------------------------------
(* personal-assitant/init.py *)

\* `while questions_asked < 3`
QuestionLimit == 3

ConflictLabels == <<"Calendar conflicts", "Routine conflicts">>
PlanLabels     == <<"Conservative (Safe)", "Efficient (Fast)", "Budget-Conscious">>

\* planning_context
PlanningContextInput(line) ==
    RunInput("Create a plan based on all gathered information for: ", line, << >>)

\* PARALLEL PLAN GENERATION: the three planners are started together
PaLaunchPlans ==
    /\ batch' = Launch(PlanBranches, PlanningContextInput(user_input))
    /\ pc' = "gather_plans"
    /\ call' = NoCall

\* "Regular conversation loop": CalendarAgent is run on the fixed prompt,
\* any other agent waits for the next line of the user
PaRegular(agent) ==
    IF agent = "CalendarAgent"
    THEN StartRun(agent, ExecutePrompt, TRUE, "await_execute")
    ELSE pc' = "prompt" /\ call' = NoCall

\* top of `while True`: at PlanningOrchestrator the question loop starts with
\* questions_asked = 0 and its first "Continue with planning" run
PaLoopTop(agent) ==
    IF agent = "PlanningOrchestrator"
    THEN /\ questions_asked' = 0
         /\ StartRun(agent, ContinuePrompt, TRUE, "await_continue")
    ELSE /\ questions_asked' = questions_asked
         /\ PaRegular(agent)

\* the first `input("You: ").strip()`, the exit test, and the conflict-check gather
PaFirstInput(line) ==
    /\ script = "pa"
    /\ pc = "first_prompt"
    /\ user_input' = Strip(line)
    /\ IF IsExit(user_input')
       THEN Goodbye /\ batch' = batch
       ELSE /\ batch' = Launch(ConflictBranches, UserLine(user_input'))
            /\ pc' = "gather_conflict"
            /\ call' = NoCall
            /\ halt' = halt
    /\ UNCHANGED << exiting, tools, mcp_servers, rendered, cursor, script, agents, conversations_db, handoffs, current_agent, result, questions_asked,
                    context_storage, ops, error >>

\* both checkers are back: combined_conflicts is built and ConflictOrchestrator run
PaJoinConflict ==
    /\ script = "pa"
    /\ pc = "gather_conflict"
    /\ AllDone(batch)
    /\ StartRun("ConflictOrchestrator",
                RunInput("User request: ", user_input, Labelled(ConflictLabels, batch)),
                TRUE, "await_orch")
    /\ batch' = << >>
    /\ UNCHANGED << exiting, tools, mcp_servers, rendered, cursor, script, agents, conversations_db, handoffs, current_agent, user_input, result,
                    questions_asked, context_storage, ops, halt, error >>

\* `current_agent = orchestrator_result.last_agent`, then the loop is entered
PaOrchReturns(att) ==
    /\ script = "pa"
    /\ pc = "await_orch"
    /\ LET r == RunResult(handoffs, call.agent, att)
       IN  /\ r.ok
           /\ result' = Bound(r)
           /\ current_agent' = r.last_agent
           /\ PaLoopTop(r.last_agent)
    /\ UNCHANGED << exiting, tools, mcp_servers, rendered, cursor, script, agents, conversations_db, handoffs, user_input, batch, context_storage,
                    ops, halt, error >>

\* a "Continue with planning" run returns: a message with "?" makes main() ask the
\* user, anything else ends the question loop
PaContinueReturns(att) ==
    /\ script = "pa"
    /\ pc = "await_continue"
    /\ LET r == RunResult(handoffs, call.agent, att)
       IN  /\ r.ok
           /\ result' = Bound(r)
           /\ IF HasQuestion(r.new_items)
              THEN pc' = "question_prompt" /\ call' = NoCall /\ batch' = batch
              ELSE PaLaunchPlans
    /\ UNCHANGED << exiting, tools, mcp_servers, rendered, cursor, script, agents, conversations_db, handoffs, current_agent, user_input, questions_asked,
                    context_storage, ops, halt, error >>

\* `user_response = input("You: ").strip()` is passed on to current_agent
PaAnswer(line) ==
    /\ script = "pa"
    /\ pc = "question_prompt"
    /\ StartRun(current_agent, UserLine(Strip(line)), TRUE, "await_answer")
    /\ UNCHANGED << exiting, tools, mcp_servers, rendered, cursor, script, agents, conversations_db, handoffs, current_agent, user_input, result, batch,
                    questions_asked, context_storage, ops, halt, error >>

\* variant: the loop test lets a fourth question through
PaAnswerReturnsOneMore(att) ==
    /\ script = "pa"
    /\ pc = "await_answer"
    /\ LET r == RunResult(handoffs, call.agent, att)
       IN  /\ r.ok
           /\ result' = Bound(r)
    /\ questions_asked' = questions_asked + 1
    /\ IF questions_asked' <= QuestionLimit
       THEN StartRun(current_agent, ContinuePrompt, TRUE, "await_continue") /\ batch' = batch
       ELSE PaLaunchPlans
    /\ UNCHANGED << exiting, tools, mcp_servers, rendered, cursor, script, agents, conversations_db, handoffs, current_agent, user_input,
                    context_storage, ops, halt, error >>

\* the run on the answer returns: questions_asked += 1 and the loop test
PaAnswerReturns(att) ==
    /\ script = "pa"
    /\ pc = "await_answer"
    /\ LET r == RunResult(handoffs, call.agent, att)
       IN  /\ r.ok
           /\ result' = Bound(r)
    /\ questions_asked' = questions_asked + 1
    /\ IF questions_asked' < QuestionLimit
       THEN StartRun(current_agent, ContinuePrompt, TRUE, "await_continue") /\ batch' = batch
       ELSE PaLaunchPlans
    /\ UNCHANGED << exiting, tools, mcp_servers, rendered, cursor, script, agents, conversations_db, handoffs, current_agent, user_input,
                    context_storage, ops, halt, error >>

\* the three plans are back: all_plans is built and planning_orchestrator run on it
PaJoinPlans ==
    /\ script = "pa"
    /\ pc = "gather_plans"
    /\ AllDone(batch)
    /\ StartRun("PlanningOrchestrator",
                RunInput("Select the best plan:", << >>, Labelled(PlanLabels, batch)),
                TRUE, "await_select")
    /\ batch' = << >>
    /\ UNCHANGED << exiting, tools, mcp_servers, rendered, cursor, script, agents, conversations_db, handoffs, current_agent, user_input, result,
                    questions_asked, context_storage, ops, halt, error >>

\* best_plan is saved, current_agent is taken from last_agent and then from the
\* handoff items; at ReviewerAgent the enrichment gather starts
PaSelectReturns(att) ==
    /\ script = "pa"
    /\ pc = "await_select"
    /\ LET r         == RunResult(handoffs, call.agent, att)
           best_plan == text_message_outputs(r.new_items)
           agent     == LastHandoffTarget(r.new_items, r.last_agent)
       IN  /\ r.ok
           /\ result' = Bound(r)
           /\ context_storage' = set_context_value(context_storage, "final_plan",
                                                   PyStr(best_plan))
           /\ current_agent' = agent
           /\ IF agent = "ReviewerAgent"
              THEN /\ batch' = << Branch("VendorResearcher",
                                         RunInput("Research vendors for: ", best_plan, << >>)),
                                  Branch("BudgetEstimator",
                                         RunInput("Estimate budget for: ", best_plan, << >>)) >>
                   /\ pc' = "gather_enrich"
                   /\ call' = NoCall
              ELSE /\ batch' = batch
                   /\ PaRegular(agent)
    /\ UNCHANGED << exiting, tools, mcp_servers, rendered, cursor, script, agents, conversations_db, handoffs, user_input, questions_asked, ops,
                    halt, error >>

\* vendors and budget are back and saved; the loop goes on at its regular part
PaJoinEnrich ==
    /\ script = "pa"
    /\ pc = "gather_enrich"
    /\ AllDone(batch)
    /\ context_storage' =
          set_context_value(
              set_context_value(context_storage, "vendor_recommendations",
                                PyStr(BranchText(batch, 1))),
              "budget_estimate", PyStr(BranchText(batch, 2)))
    /\ PaRegular(current_agent)
    /\ batch' = << >>
    /\ UNCHANGED << exiting, tools, mcp_servers, rendered, cursor, script, agents, conversations_db, handoffs, current_agent, user_input, result,
                    questions_asked, ops, halt, error >>

\* CalendarAgent's run on "Execute the approved plan" returns: main() prints
\* "Planning complete" and leaves the loop
PaExecuteReturns(att) ==
    /\ script = "pa"
    /\ pc = "await_execute"
    /\ LET r == RunResult(handoffs, call.agent, att)
       IN  /\ r.ok
           /\ result' = Bound(r)
    /\ pc' = "done"
    /\ halt' = "complete"
    /\ call' = NoCall
    /\ UNCHANGED << exiting, tools, mcp_servers, rendered, cursor, script, agents, conversations_db, handoffs, current_agent, user_input, batch,
                    questions_asked, context_storage, ops, error >>

\* "Get next user input": the line, the exit test, and the run of current_agent
PaReadInput(line) ==
    /\ script = "pa"
    /\ pc = "prompt"
    /\ user_input' = Strip(line)
    /\ IF IsExit(user_input')
       THEN Goodbye
       ELSE /\ StartRun(current_agent, UserLine(user_input'), TRUE, "await_main")
            /\ halt' = halt
    /\ UNCHANGED << exiting, tools, mcp_servers, rendered, cursor, script, agents, conversations_db, handoffs, current_agent, result, batch, questions_asked,
                    context_storage, ops, error >>

\* `current_agent = result.last_agent`, then back to the top of the loop
PaRunReturns(att) ==
    /\ script = "pa"
    /\ pc = "await_main"
    /\ LET r == RunResult(handoffs, call.agent, att)
       IN  /\ r.ok
           /\ result' = Bound(r)
           /\ current_agent' = r.last_agent
           /\ PaLoopTop(r.last_agent)
    /\ UNCHANGED << exiting, tools, mcp_servers, rendered, cursor, script, agents, conversations_db, handoffs, user_input, batch, context_storage,
                    ops, halt, error >>

----------------------------------------------------------------------------

Next ==
    \/ \E line \in RawInputs : McpReadInput(line)
    \/ \E att \in Attempts(script, handoffs, call.agent) : McpRunReturns(att)
    \/ RunRaises
    \/ \E hops \in AskedHops(script, handoffs, call.agent) : RunRejectsHandoff(hops)
    \/ \E i \in 1..Len(batch) : \E att \in Attempts(script, handoffs, batch[i].agent) : BranchReturns(i, att)
    \/ \E i \in 1..Len(batch) : BranchRaises(i)
    \/ \E i \in 1..Len(batch) : \E hops \in AskedHops(script, handoffs, batch[i].agent) :
            BranchRejectsHandoff(i, hops)
    \/ \E line \in RawInputs : PaFirstInput(line)
    \/ PaJoinConflict
    \/ \E att \in Attempts(script, handoffs, call.agent) : PaOrchReturns(att)
    \/ \E att \in Attempts(script, handoffs, call.agent) : PaContinueReturns(att)
    \/ \E line \in RawInputs : PaAnswer(line)
    \/ \E att \in Attempts(script, handoffs, call.agent) : PaAnswerReturns(att)
    \/ PaJoinPlans
    \/ \E att \in Attempts(script, handoffs, call.agent) : PaSelectReturns(att)
    \/ PaJoinEnrich
    \/ \E att \in Attempts(script, handoffs, call.agent) : PaExecuteReturns(att)
    \/ \E line \in RawInputs : PaReadInput(line)
    \/ \E att \in Attempts(script, handoffs, call.agent) : PaRunReturns(att)
    \/ \E line \in RawInputs : ParReadInput(line)
    \/ ParJoin
    \/ \E att \in Attempts(script, handoffs, call.agent) : ParDecisionReturns(att)

Spec == Init /\ [][Next]_vars

----------------------------------------------------------------------------
(* init.py, PHASE 1, with the checkers' writes to the context store *)

InitRace == Init /\ script = "pa"

NextRace ==
    \/ \E line \in RawInputs : PaFirstInput(line)
    \/ \E i \in 1..Len(batch) : \E k \in SaveKeys, v \in SaveValues : BranchSaves(i, k, v)
    \/ \E i \in 1..Len(batch) : \E att \in Attempts(script, handoffs, batch[i].agent) : BranchReturns(i, att)
    \/ \E i \in 1..Len(batch) : BranchRaises(i)
    \/ \E i \in 1..Len(batch) : \E hops \in AskedHops(script, handoffs, batch[i].agent) :
            BranchRejectsHandoff(i, hops)
    \/ PaJoinConflict

SpecRace == InitRace /\ [][NextRace]_vars

----------------------------------------------------------------------------
(* tools.py called directly: any caller, any order of calls *)

\* keys and values the caller passes
CallKeys   == {"questions_asked", "event_date"}
CallValues == { PyStr(<<"a">>), PyStr(<<"b">>) }

Op(name, k, v, r) == [name |-> name, key |-> k, value |-> v, ret |-> r]

InitStore ==
    /\ script = "tools"
    /\ pc = "idle"
    /\ handoffs = << >>
    /\ current_agent = "none"
    /\ user_input = << >>
    /\ call = NoCall
    /\ result = NoResult
    /\ batch = << >>
    /\ questions_asked = 0
    /\ context_storage = InitialContext
    /\ ops = << >>
    /\ halt = "none"
    /\ error = NoError
    /\ agents = << >>
    /\ conversations_db = NoSession
    /\ rendered = << >>
    /\ cursor = 0
    /\ tools = << >>
    /\ mcp_servers = << >>
    /\ exiting = FALSE

\* everything but the store and the record of calls
StoreFrame ==
    UNCHANGED << exiting, tools, mcp_servers, rendered, cursor, script, agents, conversations_db, pc, handoffs, current_agent, user_input, call, result, batch,
                 questions_asked, halt, error >>

CallSaveEventContext(k, v) ==
    /\ Len(ops) < MaxOps
    /\ context_storage' = save_event_context(context_storage, k, v)
    /\ ops' = Append(ops, Op("save_event_context", k, v, SavedMessage(k)))
    /\ StoreFrame

CallGetEventContext(k) ==
    /\ Len(ops) < MaxOps
    /\ ops' = Append(ops, Op("get_event_context", k, PyNone, get_event_context(context_storage, k)))
    /\ context_storage' = context_storage
    /\ StoreFrame

CallSetContextValue(k, v) ==
    /\ Len(ops) < MaxOps
    /\ context_storage' = set_context_value(context_storage, k, v)
    /\ ops' = Append(ops, Op("set_context_value", k, v, PyNone))
    /\ StoreFrame

CallGetContextValue(k) ==
    /\ Len(ops) < MaxOps
    /\ ops' = Append(ops, Op("get_context_value", k, PyNone, get_context_value(context_storage, k)))
    /\ context_storage' = context_storage
    /\ StoreFrame

CallIncrementQuestions ==
    /\ Len(ops) < MaxOps
    /\ context_storage' = increment_questions(context_storage)
    /\ ops' = Append(ops, Op("increment_questions", "questions_asked", PyNone,
                             IncrementedQuestions(context_storage)))
    /\ StoreFrame

CallClearContext ==
    /\ Len(ops) < MaxOps
    /\ context_storage' = clear_context(context_storage)
    /\ ops' = Append(ops, Op("clear_context", "", PyNone, PyNone))
    /\ StoreFrame

NextStore ==
    \/ \E k \in CallKeys, v \in CallValues : CallSaveEventContext(k, v)
    \/ \E k \in CallKeys : CallGetEventContext(k)
    \/ \E k \in CallKeys, v \in CallValues : CallSetContextValue(k, v)
    \/ \E k \in CallKeys : CallGetContextValue(k)
    \/ CallIncrementQuestions
    \/ CallClearContext

SpecStore == InitStore /\ [][NextStore]_vars

----------------------------------------------------------------------------
(* 02-short-term-memory.py: two runs of one agent on the session "user_123" *)

FirstQuestion  == RunInput("What is my favourite city", << >>, << >>)
SecondQuestion == RunInput("What's the population?", << >>, << >>)

\* the item a run's input is stored as
InputItem(inp) ==
    [type |-> "input", agent |-> "user", target |-> "none", text |-> <<inp.prompt>> \o inp.line]

\* Runner.run(..., session=session) on return: the input, then the items of the
\* run, are added after the items the session holds
SessionAppend(items, inp, new_items) == items \o <<InputItem(inp)>> \o new_items

\* the results a run of the agent can return
MemResults ==
    { r.new_items : r \in { RunResult(MemHandoffs, "Assistant", att) :
                               att \in { x \in Attempts("memory", MemHandoffs, "Assistant") :
                                            x.hops = << >> } } }

\* what one earlier execution left in conversations.db: both runs, or the first
\* one only when the second failed
ExecutionLogs ==
    { SessionAppend(<< >>, FirstQuestion, a) : a \in MemResults }
        \cup { SessionAppend(SessionAppend(<< >>, FirstQuestion, a), SecondQuestion, b) :
                    a \in MemResults, b \in MemResults }

\* the contents of conversations.db after at most n earlier executions
RECURSIVE PriorLogs(_)
PriorLogs(n) ==
    IF n = 0 THEN { << >> }
    ELSE PriorLogs(n - 1) \cup { p \o e : p \in PriorLogs(n - 1), e \in ExecutionLogs }

InitMemory ==
    /\ script = "memory"
    /\ pc = "start"
    /\ handoffs = MemHandoffs
    /\ current_agent = "none"
    /\ user_input = << >>
    /\ call = NoCall
    /\ result = NoResult
    /\ batch = << >>
    /\ questions_asked = 0
    /\ context_storage = InitialContext
    /\ ops = << >>
    /\ halt = "none"
    /\ error = NoError
    /\ agents = MemConstructed
    /\ \E p \in PriorLogs(MaxPriorRuns) : conversations_db = [items |-> p, loaded |-> << >>]
    /\ rendered = << >>
    /\ cursor = 0
    /\ tools = ToolsOf(script)
    /\ mcp_servers = ConnectorsOf(script)
    /\ exiting = FALSE

\* the first Runner.run is started: it loads the items of the session
MemStart ==
    /\ script = "memory"
    /\ pc = "start"
    /\ StartRun("Assistant", FirstQuestion, TRUE, "await_first")
    /\ conversations_db' = [conversations_db EXCEPT !.loaded = conversations_db.items]
    /\ UNCHANGED << exiting, tools, mcp_servers, rendered, cursor, script, agents, handoffs, current_agent, user_input, result, batch,
                    questions_asked, context_storage, ops, halt, error >>

\* variant: the second run is given a session of its own, which holds nothing
MemFirstReturnsFreshSession(att) ==
    /\ script = "memory"
    /\ pc = "await_first"
    /\ LET r == RunResult(handoffs, call.agent, att)
       IN  /\ r.ok
           /\ result' = Bound(r)
           /\ conversations_db' =
                 [items  |-> SessionAppend(conversations_db.items, call.input, r.new_items),
                  loaded |-> << >>]
    /\ StartRun("Assistant", SecondQuestion, TRUE, "await_second")
    /\ UNCHANGED << exiting, tools, mcp_servers, rendered, cursor, script, agents, handoffs, current_agent, user_input, batch,
                    questions_asked, context_storage, ops, halt, error >>

\* the first run returns: its turns are added to the session, the output is
\* printed, and the second run is started on the same session
MemFirstReturns(att) ==
    /\ script = "memory"
    /\ pc = "await_first"
    /\ LET r == RunResult(handoffs, call.agent, att)
           stored == SessionAppend(conversations_db.items, call.input, r.new_items)
       IN  /\ r.ok
           /\ result' = Bound(r)
           /\ conversations_db' = [items |-> stored, loaded |-> stored]
    /\ StartRun("Assistant", SecondQuestion, TRUE, "await_second")
    /\ UNCHANGED << exiting, tools, mcp_servers, rendered, cursor, script, agents, handoffs, current_agent, user_input, batch,
                    questions_asked, context_storage, ops, halt, error >>

\* the second run returns: its turns are added, the output is printed, main() ends
MemSecondReturns(att) ==
    /\ script = "memory"
    /\ pc = "await_second"
    /\ LET r == RunResult(handoffs, call.agent, att)
       IN  /\ r.ok
           /\ result' = Bound(r)
           /\ conversations_db' =
                 [conversations_db EXCEPT
                     !.items = SessionAppend(conversations_db.items, call.input, r.new_items)]
    /\ pc' = "done"
    /\ halt' = "returned"
    /\ call' = NoCall
    /\ UNCHANGED << exiting, tools, mcp_servers, rendered, cursor, script, agents, handoffs, current_agent, user_input, batch,
                    questions_asked, context_storage, ops, error >>

NextMemory ==
    \/ MemStart
    \/ \E att \in Attempts(script, handoffs, call.agent) : MemFirstReturns(att)
    \/ \E att \in Attempts(script, handoffs, call.agent) : MemSecondReturns(att)
    \/ RunRaises

SpecMemory == InitMemory /\ [][NextMemory]_vars

----------------------------------------------------------------------------
(* The setup passes on their own: Agent(...) and the assignment to .handoffs, *)
(* applied to any names and any targets                                       *)

\* names given to the agents constructed
SetupNames == {"ReviewerAgent", "CalendarAgent"}

\* the lists assigned to .handoffs: up to two of the agents constructed so far
\* (a name that is not bound yet cannot be written in the list)
HandoffLists(n) == { T \in SUBSET (1..n) : Cardinality(T) <= 2 }

InitSetup ==
    /\ script = "setup"
    /\ pc = "setup"
    /\ handoffs = << >>
    /\ current_agent = "none"
    /\ user_input = << >>
    /\ call = NoCall
    /\ result = NoResult
    /\ batch = << >>
    /\ questions_asked = 0
    /\ context_storage = InitialContext
    /\ ops = << >>
    /\ halt = "none"
    /\ error = NoError
    /\ agents = << >>
    /\ conversations_db = NoSession
    /\ rendered = << >>
    /\ cursor = 0
    /\ tools = << >>
    /\ mcp_servers = << >>
    /\ exiting = FALSE

\* `x = Agent(name=n, ...)`: a new object with the default handoffs=[]; the
\* constructor compares n with no other agent's name
ConstructAgent(n) ==
    /\ pc = "setup"
    /\ Len(agents) < MaxAgents
    /\ agents' = Append(agents, n)
    /\ handoffs' = Append(handoffs, {})
    /\ UNCHANGED << exiting, tools, mcp_servers, rendered, cursor, script, pc, current_agent, user_input, call, result, batch,
                    questions_asked, context_storage, ops, halt, error, conversations_db >>

\* `x.handoffs = [...]`: a plain attribute assignment on the i-th agent constructed
AssignHandoffs(i, T) ==
    /\ pc = "setup"
    /\ i \in 1..Len(agents)
    /\ handoffs' = [handoffs EXCEPT ![i] = T]
    /\ UNCHANGED << exiting, tools, mcp_servers, rendered, cursor, script, pc, current_agent, user_input, call, result, batch,
                    questions_asked, context_storage, ops, halt, error, agents,
                    conversations_db >>

NextSetup ==
    \/ \E n \in SetupNames : ConstructAgent(n)
    \/ \E i \in 1..Len(agents) : \E T \in HandoffLists(Len(agents)) : AssignHandoffs(i, T)

SpecSetup == InitSetup /\ [][NextSetup]_vars

----------------------------------------------------------------------------
(* Properties *)

PlanningScripts == {"mcp", "pa"}

RECURSIVE ReachSet(_, _, _)
ReachSet(h, S, n) ==
    IF n = 0 THEN S ELSE ReachSet(h, S \cup UNION { h[a] : a \in S }, n - 1)

\* a itself and every agent that declared handoff edges lead to from a
DeclaredReach(h, a) == ReachSet(h, {a}, Cardinality(DOMAIN h))

C1_Inv ==
    script \in PlanningScripts =>
        /\ \A i \in 1..Len(result.new_items) :
              IsHandoff(result.new_items[i]) =>
                  result.new_items[i].target \in handoffs[result.new_items[i].agent]
        /\ error.kind = "UnknownTarget" => error.target \notin handoffs[error.agent]

C1_Step ==
    script \in PlanningScripts =>
        /\ current_agent # "none" => current_agent' \in DeclaredReach(handoffs, current_agent)
        /\ error'.kind = "UnknownTarget" => current_agent' = current_agent

C2_Writes == {"save_event_context", "set_context_value"}
C2_Reads  == {"get_event_context", "get_context_value"}

\* the call may change what key k holds
C2_Touches(op, k) ==
    \/ op.name \in C2_Writes /\ op.key = k
    \/ op.name = "clear_context"
    \/ op.name = "increment_questions" /\ k = "questions_asked"

\* C2: context store round trip.  A read of key k, by the tool or by the helper,
\* returns the value of the latest write of k, by the tool or by the helper, when
\* nothing else touched k in between: a write followed by a read returns what was
\* written, and of two writes the later one wins.
C2_RoundTrip ==
    \A i, j \in 1..Len(ops) :
        ( /\ i < j
          /\ ops[i].name \in C2_Writes
          /\ ops[j].name \in C2_Reads
          /\ ops[j].key = ops[i].key
          /\ \A m \in (i + 1)..(j - 1) : ~ C2_Touches(ops[m], ops[i].key) )
        => ops[j].ret = ops[i].value

\* C2 witness: the tool wrote "a", the helper overwrote it with "b", the tool read "b"
C2_Witness ==
    /\ Len(ops) = 3
    /\ ops[1] = Op("save_event_context", "event_date", PyStr(<<"a">>), SavedMessage("event_date"))
    /\ ops[2] = Op("set_context_value", "event_date", PyStr(<<"b">>), PyNone)
    /\ ops[3] = Op("get_event_context", "event_date", PyNone, PyStr(<<"b">>))

\* the agents each gather call is given, in order
C3_Launched(at) ==
    CASE at = "gather_conflict" -> ConflictBranches
      [] at = "gather_plans"    -> PlanBranches
      [] at = "gather_enrich"   -> EnrichBranches
      [] at = "gather"          -> ParBranches

C3_Inv ==
    batch # << >> =>
        /\ call = NoCall
        /\ pc \in {"gather_conflict", "gather_plans", "gather_enrich", "gather"}
        /\ [i \in 1..Len(batch) |-> batch[i].agent] = C3_Launched(pc)

\* the step in which main() goes on after a gather
C3_Step ==
    (batch # << >> /\ batch' = << >> /\ halt' # "error") =>
        /\ \A i \in 1..Len(batch) : batch[i].status = "done"
        /\ IF pc = "gather_enrich"
           THEN /\ context_storage'["vendor_recommendations"]
                      = PyStr(text_message_outputs(batch[1].new_items))
                /\ context_storage'["budget_estimate"]
                      = PyStr(text_message_outputs(batch[2].new_items))
           ELSE /\ Len(call'.input.parts) = Len(batch)
                /\ \A i \in 1..Len(batch) :
                      call'.input.parts[i].text = text_message_outputs(batch[i].new_items)

\* C3: fan-out join.  A batch holds exactly one branch per launched agent; while it
\* is in flight no downstream invocation runs; the merge and the downstream agent
\* start only when every branch has completed, with one result per branch,
\* whichever branch finished first.
C3_FanOutJoin == [](C3_Inv) /\ [][C3_Step]_vars

\* C3 witness: the three plans were joined and the selecting run is in flight
C3_Witness ==
    /\ script = "pa"
    /\ pc = "await_select"
    /\ Len(call.input.parts) = 3
    /\ call.input.parts[1].text # call.input.parts[3].text

C4_Upper(c) ==
    CASE c = "b" -> "B" [] c = "e" -> "E" [] c = "i" -> "I" [] c = "q" -> "Q"
      [] c = "t" -> "T" [] c = "u" -> "U" [] c = "x" -> "X" [] c = "y" -> "Y"

\* exit, quit or bye in any letter case
C4_IsExitWord(s) ==
    \E w \in { <<"e","x","i","t">>, <<"q","u","i","t">>, <<"b","y","e">> } :
        /\ Len(s) = Len(w)
        /\ \A i \in 1..Len(w) : s[i] = w[i] \/ s[i] = C4_Upper(w[i])

C4_Trimmed(s) == s = << >> \/ (s[1] \notin {" ", "\t"} /\ s[Len(s)] \notin {" ", "\t"})

C4_Step ==
    (script \in PlanningScripts /\ pc = "prompt") =>
        /\ C4_Trimmed(user_input')
        /\ IF user_input' = << >> \/ C4_IsExitWord(user_input')
           THEN /\ pc' = "done"
                /\ halt' = "goodbye"
                /\ call' = NoCall
                /\ current_agent' = current_agent
           ELSE /\ call' = Invocation(current_agent, UserLine(user_input'), TRUE)
                /\ pc' \in {"await_run", "await_main"}
                /\ halt' = "none"

\* C4: exit handling at the prompt of the main dispatch loop.  The line is trimmed;
\* an empty line or exit, quit, bye in any letter case halts the loop with no agent
\* invoked; every other line starts an invocation of the current agent on that line.
C4_ExitHandling == [][C4_Step]_vars

\* C4 witness: the main loop of init.py was left on "ExIT" typed with blanks around
C4_Witness ==
    /\ script = "pa"
    /\ current_agent # "none"
    /\ halt = "goodbye"
    /\ user_input = <<"E","x","I","T">>

\* a sequential invocation in flight comes back with a result in this step
ReturnStep == call # NoCall /\ halt' # "error"

C5_Step ==
    (script = "pa" /\ pc \in {"first_prompt", "prompt", "question_prompt"}) =>
        LET line == IF pc = "question_prompt" THEN call'.input.line ELSE user_input'
        IN  (line = << >> \/ C4_IsExitWord(line)) =>
                /\ halt' = "goodbye"
                /\ call' = NoCall
                /\ batch' = << >>

\* C5: at every prompt of init.py (the first prompt, the main-loop prompt and the
\* clarifying-question prompt) an exit token or an empty line ends the session and
\* no further agent is invoked.
C5_ExitAlwaysAvailable == [][C5_Step]_vars

C6_Inv ==
    (script \in PlanningScripts /\ halt = "complete") =>
        current_agent = "CalendarAgent" /\ HasMessage(result.new_items)

C6_Step ==
    (script \in PlanningScripts /\ ReturnStep /\ current_agent' = "CalendarAgent") =>
        IF HasMessage(result'.new_items)
        THEN halt' = "complete" /\ pc' = "done"
        ELSE halt' = "none" /\ pc' = "prompt" /\ call' = NoCall

\* C6: terminal condition.  When a step leaves CalendarAgent current and its result
\* holds a MessageOutput the loop halts with "Planning complete"; when the result holds
\* none the loop does not halt and waits at the prompt for the next user input.
C6_TerminalCondition == [](C6_Inv) /\ [][C6_Step]_vars

NoItem == [type |-> "none", agent |-> "none", target |-> "none", text |-> << >>]

\* the first handoff item of a result
C7_FirstHandoff(items) ==
    LET idx == { i \in 1..Len(items) : IsHandoff(items[i]) }
    IN  IF idx = {} THEN NoItem
        ELSE items[CHOOSE i \in idx : \A j \in idx : i <= j]

C7_Inv ==
    script \in PlanningScripts =>
        ~ ( /\ error.kind = "UnknownTarget"
            /\ error.agent = CheckerOf(script)
            /\ error.target \in {"NegotiatorAgent", PlannerOf(script)} )

C7_Step ==
    script \in PlanningScripts =>
        LET checker == CheckerOf(script)
            planner == PlannerOf(script)
            items   == result'.new_items
            first   == C7_FirstHandoff(items)
        IN  /\ (ReturnStep /\ call.agent = checker /\ result'.finding = "clear") =>
                  /\ first = HandoffOutputItem(checker, planner)
                  /\ \A i \in 1..Len(items) :
                        items[i].agent # "NegotiatorAgent" /\ items[i].target # "NegotiatorAgent"
                  /\ current_agent' \notin {checker, "NegotiatorAgent"}
            /\ (ReturnStep /\ call.agent = checker /\ result'.finding = "conflicts") =>
                  /\ first = HandoffOutputItem(checker, "NegotiatorAgent")
                  /\ \A i \in 1..Len(items) :
                        (IsHandoff(items[i]) /\ items[i].target = planner) =>
                            items[i].agent = "NegotiatorAgent"
                  /\ current_agent' # checker
            /\ current_agent \in {planner, "ReviewerAgent", "CalendarAgent"} =>
                  current_agent' # "NegotiatorAgent"

C8_Step ==
    (script \in PlanningScripts /\ ReturnStep) =>
        LET target == LastHandoffTarget(result'.new_items, "none")
        IN  target # "none" =>
                /\ current_agent' = target
                /\ call' # NoCall => call'.agent = target

\* C8: every handoff is honoured.  When an invocation made by the loop returns a
\* result that ends with a handoff to T, T is the current agent afterwards and the
\* next invocation the loop makes is an invocation of T.
C8_HandoffHonoured == [][C8_Step]_vars

C9_Step ==
    /\ halt' = "error" => current_agent' = current_agent
    /\ current_agent' # current_agent =>
          /\ ReturnStep
          /\ current_agent' \in
                {result'.last_agent, LastHandoffTarget(result'.new_items, result'.last_agent)}

\* C9: a failing step does not advance the current agent.  A step in which an
\* invocation raises leaves current_agent as it was; current_agent changes only in a
\* step in which an invocation returned, and then to an agent that result names.
C9_FailureKeepsCurrentAgent == [][C9_Step]_vars

\* C9 witness: the run of ReviewerAgent failed and ReviewerAgent is still current
C9_Witness ==
    /\ script = "pa"
    /\ halt = "error"
    /\ error.kind = "ModelInvocationFailure"
    /\ error.agent = "ReviewerAgent"
    /\ current_agent = "ReviewerAgent"

C10_Step ==
    (script \in PlanningScripts /\ call # NoCall /\ error.kind = "none" /\ error'.kind # "none") =>
        /\ halt' = "none"
        /\ pc' = "prompt"
        /\ current_agent' = current_agent

\* C10: after a failed invocation of the loop the session is resumable.  The loop keeps running:
\* main() is back at its prompt with the current agent it had, ready to take the next
\* line of the user and to dispatch it to that agent.
C10_SessionResumable == [][C10_Step]_vars

\* the agents whose invocations are in flight: the sequential one and the running
\* branches of the batch
InFlight ==
    (IF call # NoCall THEN {call.agent} ELSE {})
        \cup { batch[i].agent : i \in { j \in 1..Len(batch) : batch[j].status = "running" } }

\* agent a can change the calendar when it runs
MayWriteCalendar(s, a) == CalendarToolsOf(s, a) \cap CalendarWrites # {}

C11_Inv ==
    script \in PlanningScripts =>
        \A a \in InFlight :
            MayWriteCalendar(script, a) =>
                a = "CalendarAgent" /\ current_agent = "CalendarAgent"

C11_Step ==
    (script \in PlanningScripts /\ ReturnStep) =>
        \A i \in 1..Len(result'.new_items) :
            LET item == result'.new_items[i]
            IN  (IsHandoff(item) /\ MayWriteCalendar(script, item.target)) =>
                    item.agent = "ReviewerAgent" /\ item.target = "CalendarAgent"

\* C11: the reviewer gate is the boundary before calendar writes.  An agent that can
\* write to the calendar is invoked by the loop only when it is CalendarAgent and
\* CalendarAgent is current (which it becomes only by ReviewerAgent's handoff), and
\* inside a run control passes to such an agent only by the handoff
\* ReviewerAgent -> CalendarAgent.
C11_ReviewerGate == [](C11_Inv) /\ [][C11_Step]_vars

\* the invocation in flight is a run of ReviewerAgent on a line the user typed
C12_ReplyDelivered ==
    /\ call.agent = "ReviewerAgent"
    /\ call.input = UserLine(user_input)
    /\ pc \in {"await_run", "await_main"}

C12_Step ==
    (script \in PlanningScripts /\ ReturnStep) =>
        /\ (\E i \in 1..Len(result'.new_items) :
                /\ IsHandoff(result'.new_items[i])
                /\ result'.new_items[i].agent = "ReviewerAgent")
              => C12_ReplyDelivered
        /\ (current_agent # "CalendarAgent" /\ current_agent' = "CalendarAgent")
              => C12_ReplyDelivered

\* C12: human in the loop.  ReviewerAgent hands off (to CalendarAgent or back to the
\* planner) only in a run that delivered a line typed by the user to ReviewerAgent,
\* and CalendarAgent becomes the current agent only as the outcome of such a run.
C12_HumanInTheLoop == [][C12_Step]_vars

\* the branches of the batch whose run has not finished
Running == { i \in 1..Len(batch) : batch[i].status = "running" }

\* number of agent invocations in flight
InFlightCount == (IF call # NoCall THEN 1 ELSE 0) + Cardinality(Running)

\* the positions at which main() waits for a line of the user
PromptPcs == {"prompt", "first_prompt", "question_prompt"}

C13_Inv ==
    /\ InFlightCount > 1 => (pc \in GatherPcs /\ call = NoCall)
    /\ pc \notin GatherPcs => (batch = << >> /\ InFlightCount <= 1)
    /\ pc \in PromptPcs => InFlightCount = 0

C13_Step ==
    /\ user_input' # user_input => InFlightCount = 0
    /\ (call' # NoCall /\ call' # call) => (Running = {} /\ batch' = << >>)
    /\ (batch = << >> /\ batch' # << >>) => (call' = NoCall /\ pc' \in GatherPcs)

\* C13: single control thread.  More than one invocation is in flight only while
\* main() is suspended in a gather; outside a gather at most one is in flight; no
\* line is read from the user and no sequential invocation is started while an
\* invocation is still running, and a batch is launched only with no sequential
\* invocation in flight.
C13_SingleControlThread == [](C13_Inv) /\ [][C13_Step]_vars

\* C13 witness: two planners are still running, the third has returned
C13_Witness ==
    /\ script = "pa"
    /\ pc = "gather_plans"
    /\ Cardinality(Running) = 2
    /\ InFlightCount = 2

\* the branches of the batch in flight whose agent holds the calendar connector
C14_HoldingBranches(among) ==
    { i \in among : batch[i].agent \in CalendarHolders(script) }

\* number of in-flight invocations of agents that hold the calendar connector
C14_HoldersInFlight ==
    (IF call # NoCall /\ call.agent \in CalendarHolders(script) THEN 1 ELSE 0)
        + Cardinality(C14_HoldingBranches(Running))

\* C14: the calendar connector is accessed sequentially.  At most one invocation in
\* flight is of an agent that holds the calendar connector, and every batch has at
\* most one branch whose agent is configured with it.
C14_ConnectorSequential ==
    /\ C14_HoldersInFlight <= 1
    /\ Cardinality(C14_HoldingBranches(1..Len(batch))) <= 1

\* C14 witness: CalendarConflictChecker, which holds the connector, runs together
\* with RoutineConflictChecker
C14_Witness ==
    /\ script = "pa"
    /\ pc = "gather_conflict"
    /\ Cardinality(Running) = 2
    /\ C14_HoldersInFlight = 1

\* the labels each composite is built with, in the order of its gather call
C16_Labels(at) ==
    CASE at = "gather_conflict" -> ConflictLabels
      [] at = "gather_plans"    -> PlanLabels
      [] at = "gather"          -> ParLabels

\* the downstream agent of each merge
C16_Aggregator(at) ==
    CASE at = "gather_conflict" -> "ConflictOrchestrator"
      [] at = "gather_plans"    -> "PlanningOrchestrator"
      [] at = "gather"          -> "decision_agent"

C16_Step ==
    (pc \in {"gather_conflict", "gather_plans", "gather"} /\ batch' = << >> /\ halt' # "error") =>
        /\ call'.agent = C16_Aggregator(pc)
        /\ call'.input.parts =
              [i \in 1..Len(batch) |->
                  [label |-> C16_Labels(pc)[i],
                   text  |-> text_message_outputs(batch[i].new_items)]]
        /\ \A i, j \in 1..Len(batch) :
              i # j => C16_Labels(pc)[i] # C16_Labels(pc)[j]
        /\ { batch[i].order : i \in 1..Len(batch) } = 1..Len(batch)

\* C16: fan-out merge.  The composite given to the aggregating agent has one part
\* per branch, the i-th part being the text output of the i-th launched branch under
\* the i-th label, all labels different; this is so for every order in which the
\* branches finished.
C16_FanOutMerge == [][C16_Step]_vars

\* C16 witness: the decision agent runs on a composite whose two parts differ
C16_Witness ==
    /\ script = "par"
    /\ pc = "await_decision"
    /\ call.input.parts = << [label |-> "Policy check", text |-> << >>],
                             [label |-> "Calendar check", text |-> <<"o","k">>] >>

\* the last launched branch finished first and the first one last
C16_ReversedCompletion ==
    /\ script = "pa"
    /\ pc = "gather_plans"
    /\ batch[1].order = 3
    /\ batch[3].order = 1
    /\ BranchText(batch, 1) # BranchText(batch, 3)

\* the save_event_context calls made in the batch in flight
C15_Writes == UNION { Range(batch[i].saved) : i \in 1..Len(batch) }

\* the writes of key k
C15_WritesOf(k) == { w \in C15_Writes : w.key = k }

\* the write of key k that executed last
C15_LastWrite(k) ==
    CHOOSE w \in C15_WritesOf(k) : \A u \in C15_WritesOf(k) : u.seq <= w.seq

C15_Inv ==
    pc = "gather_conflict" =>
        \A k \in Keys :
            IF C15_WritesOf(k) = {}
            THEN context_storage[k] = InitialContext[k]
            ELSE context_storage[k] = C15_LastWrite(k).value

C15_Step ==
    (pc = "gather_conflict" /\ pc' = "await_orch") =>
        /\ context_storage' = context_storage
        /\ call'.agent = "ConflictOrchestrator"

\* C15: the fan-out write race is last-write-wins.  While the two conflict checkers
\* run, every key a checker saved holds the value of the save that executed last,
\* whichever branch made it, every key no checker saved holds what it held before the
\* batch, and the join hands that store unchanged to the run of ConflictOrchestrator.
C15_LastWriteWins == [](C15_Inv) /\ [][C15_Step]_vars

\* C15 witness: both checkers saved event_date, RoutineConflictChecker first and
\* CalendarConflictChecker last, and the store holds CalendarConflictChecker's value
C15_Witness ==
    /\ pc = "gather_conflict"
    /\ batch[1].saved = << [key |-> "event_date", value |-> PyStr(<<"a">>), seq |-> 2] >>
    /\ batch[2].saved = << [key |-> "event_date", value |-> PyStr(<<"b">>), seq |-> 1] >>
    /\ context_storage["event_date"] = PyStr(<<"a">>)
    /\ AllDone(batch)

\* the other order: CalendarConflictChecker saved first, RoutineConflictChecker last
C15_OtherOrder ==
    /\ pc = "gather_conflict"
    /\ batch[1].saved = << [key |-> "event_date", value |-> PyStr(<<"a">>), seq |-> 1] >>
    /\ batch[2].saved = << [key |-> "event_date", value |-> PyStr(<<"b">>), seq |-> 2] >>
    /\ context_storage["event_date"] = PyStr(<<"b">>)
    /\ AllDone(batch)

\* a branch of the batch in flight fails in this step, after another has completed
C17_BranchFails ==
    /\ pc \in GatherPcs
    /\ DoneCount(batch) >= 1
    /\ error.kind = "none"
    /\ error'.kind # "none"

C17_Step ==
    C17_BranchFails =>
        /\ error'.agent \in { batch[i].agent : i \in 1..Len(batch) }
        /\ halt' # "error"
        /\ pc' # "crashed"
        /\ Len(batch') = Len(batch)
        /\ \A i \in 1..Len(batch) :
              batch[i].status = "done" => batch'[i].new_items = batch[i].new_items

\* C17: fan-out failure handling.  When a branch of a batch fails, the failure is
\* recorded for that branch's agent, main() keeps running, and the results of the
\* branches that completed are still held for the merge stage.
C17_PartialResults == [][C17_Step]_vars

\* the keys of context_storage that hold state; max_questions is configuration
C20_StateKeys == {"questions_asked", "conflicts_detected", "plan_approved"}

\* the call made in this step is clear_context()
C20_Clears ==
    /\ Len(ops') = Len(ops) + 1
    /\ ops'[Len(ops')].name = "clear_context"

C20_Step ==
    C20_Clears =>
        /\ context_storage'["questions_asked"] = PyInt(0)
        /\ context_storage'["conflicts_detected"] = PyEmptyList
        /\ context_storage'["plan_approved"] = PyFalse
        /\ \A k \in Keys \ (C20_StateKeys \cup {"max_questions"}) :
              context_storage'[k] = Absent
        /\ context_storage'["max_questions"] = context_storage["max_questions"]

\* C20: clear_context removes every key that is not a configuration key and leaves
\* the configuration as it was.  After the call questions_asked is 0,
\* conflicts_detected is empty, plan_approved is False, every other saved key is
\* absent, and max_questions holds the value it held before the call.
C20_ClearContext == [][C20_Step]_vars

\* two of the agents constructed have the same name
C18_Duplicate == \E i, j \in 1..Len(agents) : i < j /\ agents[i] = agents[j]

\* some handoff list names an agent that was not constructed
C18_Unregistered ==
    \E i \in 1..Len(handoffs) : \E t \in handoffs[i] : t \notin 1..Len(agents)

C19_IsPrefix(a, b) == Len(a) <= Len(b) /\ SubSeq(b, 1, Len(a)) = a

C19_Step ==
    /\ C19_IsPrefix(conversations_db.items, conversations_db'.items)
    /\ (call # NoCall /\ call.session /\ halt' # "error") =>
          conversations_db'.items =
              conversations_db.items \o <<InputItem(call.input)>> \o result'.new_items
    /\ (call' # NoCall /\ call'.session /\ call' # call) =>
          conversations_db'.loaded = conversations_db'.items
    /\ halt' = "error" => conversations_db'.items = conversations_db.items

----------------------------------------------------------------------------
(* 02-agent-mcp-calendar.py: the tools PlannerAgent's model may call on the store *)

\* a Python bool
PyBool(b) == [tag |-> "bool", n |-> (IF b THEN 1 ELSE 0), s |-> << >>]

\* can_ask_more_questions(): `asked < max_q`; comparing a str with an int raises
can_ask_more_questions(d) ==
    LET asked == IF d["questions_asked"] = Absent THEN PyInt(0) ELSE d["questions_asked"]
        max_q == IF d["max_questions"] = Absent THEN PyInt(3) ELSE d["max_questions"]
    IN  IF asked.tag = "int" /\ max_q.tag = "int" THEN PyBool(asked.n < max_q.n)
        ELSE PyRaise("TypeError")

\* number of tool calls of the planner's model that are followed
MaxToolCalls == 4

InitPlannerTools ==
    /\ script = "mcp_tools"
    /\ pc = "idle"
    /\ handoffs = << >>
    /\ current_agent = "PlannerAgent"
    /\ user_input = << >>
    /\ call = NoCall
    /\ result = NoResult
    /\ batch = << >>
    /\ questions_asked = 0
    /\ context_storage = InitialContext
    /\ ops = << >>
    /\ halt = "none"
    /\ error = NoError
    /\ agents = << >>
    /\ conversations_db = NoSession
    /\ rendered = << >>
    /\ cursor = 0
    /\ tools = << >>
    /\ mcp_servers = << >>
    /\ exiting = FALSE

PlannerIncrementQuestions ==
    /\ Len(ops) < MaxToolCalls
    /\ context_storage' = increment_questions(context_storage)
    /\ ops' = Append(ops, Op("increment_questions", "questions_asked", PyNone,
                             IncrementedQuestions(context_storage)))
    /\ StoreFrame

PlannerCanAskMoreQuestions ==
    /\ Len(ops) < MaxToolCalls
    /\ ops' = Append(ops, Op("can_ask_more_questions", "", PyNone,
                             can_ask_more_questions(context_storage)))
    /\ context_storage' = context_storage
    /\ StoreFrame

PlannerSaveEventContext(k, v) ==
    /\ Len(ops) < MaxToolCalls
    /\ context_storage' = save_event_context(context_storage, k, v)
    /\ ops' = Append(ops, Op("save_event_context", k, v, SavedMessage(k)))
    /\ StoreFrame

PlannerGetEventContext(k) ==
    /\ Len(ops) < MaxToolCalls
    /\ ops' = Append(ops, Op("get_event_context", k, PyNone, get_event_context(context_storage, k)))
    /\ context_storage' = context_storage
    /\ StoreFrame

NextPlannerTools ==
    \/ PlannerIncrementQuestions
    \/ PlannerCanAskMoreQuestions
    \/ \E k \in CallKeys, v \in CallValues : PlannerSaveEventContext(k, v)
    \/ \E k \in CallKeys : PlannerGetEventContext(k)

SpecPlannerTools == InitPlannerTools /\ [][NextPlannerTools]_vars

----------------------------------------------------------------------------
(* C21 *)

\* the counter of the store never passes max_questions, which stays 3
C21_Inv ==
    LET asked == context_storage["questions_asked"]
        max_q == context_storage["max_questions"]
    IN  /\ max_q = PyInt(3)
        /\ asked.tag = "int" => asked.n <= max_q.n

\* a call of can_ask_more_questions returns True exactly when questions_asked < max_questions
C21_Step ==
    (Len(ops') = Len(ops) + 1 /\ ops'[Len(ops')].name = "can_ask_more_questions")
        => LET asked == context_storage["questions_asked"]
               max_q == context_storage["max_questions"]
           IN  asked.tag = "int" /\ max_q.tag = "int"
                  => ops'[Len(ops')].ret = PyBool(asked.n < max_q.n)

\* C21: in every reachable state of the planner's tool use in 02-agent-mcp-calendar.py
\* questions_asked does not exceed max_questions (3), and can_ask_more_questions
\* returns True exactly when questions_asked < max_questions.
C21_QuestionBound == [](C21_Inv) /\ [][C21_Step]_vars

----------------------------------------------------------------------------
(* C22 *)

\* the places of the question loop of init.py
C22_LoopPcs == {"await_continue", "question_prompt", "await_answer"}

\* the plan-generation gather as main() starts it
C22_PlansLaunched ==
    pc' = "gather_plans" /\ batch' = Launch(PlanBranches, PlanningContextInput(user_input))

\* the user is at a question prompt only with fewer than 3 answers given in this
\* pass, so the prompt is at most the third
C22_Inv ==
    /\ questions_asked <= 3
    /\ pc \in {"question_prompt", "await_answer"} => questions_asked < 3

C22_Step ==
    (script = "pa" /\ halt' # "error") =>
        \* the loop counter starts at 0 with the pass and counts the answers
        /\ (pc \notin C22_LoopPcs /\ pc' \in C22_LoopPcs)
               => pc' = "await_continue" /\ questions_asked' = 0
        /\ pc = "await_answer" => questions_asked' = questions_asked + 1
        /\ pc # "await_answer" /\ pc \in C22_LoopPcs => questions_asked' = questions_asked
        \* a "Continue with planning" run that returns: a question prompts the
        \* user, anything else starts plan generation at once
        /\ pc = "await_continue" =>
               IF HasQuestion(result'.new_items)
               THEN pc' = "question_prompt"
               ELSE C22_PlansLaunched
        \* after the third answer plan generation starts, before it the loop goes on
        /\ pc = "await_answer" =>
               IF questions_asked' = 3
               THEN C22_PlansLaunched
               ELSE pc' = "await_continue" /\ call'.input = ContinuePrompt
        \* plan generation starts from the question loop only
        /\ (pc # "gather_plans" /\ pc' = "gather_plans")
               => pc \in {"await_continue", "await_answer"}

\* C22: in each pass through the planning phase of init.py the question loop
\* prompts the user at most 3 times, and parallel plan generation starts as soon
\* as a "Continue with planning" run yields no message containing "?" or the
\* third answer has been processed.
C22_QuestionBound == [](C22_Inv) /\ [][C22_Step]_vars

\* plan generation started after the third answer
C22_Witness ==
    /\ script = "pa"
    /\ pc = "gather_plans"
    /\ questions_asked = 3
    /\ \A i \in 1..Len(batch) : batch[i].status = "running"

----------------------------------------------------------------------------
(* tools.py: the question counter, called directly *)

\* variant: the difference is returned as it is
get_questions_remaining_unclamped(d) ==
    LET asked == IF d["questions_asked"] = Absent THEN PyInt(0) ELSE d["questions_asked"]
        max_q == IF d["max_questions"] = Absent THEN PyInt(10) ELSE d["max_questions"]
    IN  IF asked.tag = "int" /\ max_q.tag = "int" THEN PyInt(max_q.n - asked.n)
        ELSE PyRaise("TypeError")

\* get_questions_remaining(): `max(0, max_q - asked)`; subtracting an int from a
\* str, or a str from an int, raises TypeError
get_questions_remaining(d) ==
    LET asked == IF d["questions_asked"] = Absent THEN PyInt(0) ELSE d["questions_asked"]
        max_q == IF d["max_questions"] = Absent THEN PyInt(10) ELSE d["max_questions"]
    IN  IF asked.tag = "int" /\ max_q.tag = "int"
        THEN PyInt(IF max_q.n - asked.n > 0 THEN max_q.n - asked.n ELSE 0)
        ELSE PyRaise("TypeError")

\* number of calls on the counter that are followed
MaxCounterCalls == 5

InitCounter ==
    /\ script = "counter"
    /\ pc = "idle"
    /\ handoffs = << >>
    /\ current_agent = "none"
    /\ user_input = << >>
    /\ call = NoCall
    /\ result = NoResult
    /\ batch = << >>
    /\ questions_asked = 0
    /\ context_storage = InitialContext
    /\ ops = << >>
    /\ halt = "none"
    /\ error = NoError
    /\ agents = << >>
    /\ conversations_db = NoSession
    /\ rendered = << >>
    /\ cursor = 0
    /\ tools = << >>
    /\ mcp_servers = << >>
    /\ exiting = FALSE

CounterIncrementQuestions ==
    /\ Len(ops) < MaxCounterCalls
    /\ context_storage' = increment_questions(context_storage)
    /\ ops' = Append(ops, Op("increment_questions", "questions_asked", PyNone,
                             IncrementedQuestions(context_storage)))
    /\ StoreFrame

CounterGetQuestionsRemaining ==
    /\ Len(ops) < MaxCounterCalls
    /\ ops' = Append(ops, Op("get_questions_remaining", "", PyNone,
                             get_questions_remaining(context_storage)))
    /\ context_storage' = context_storage
    /\ StoreFrame

CounterClearContext ==
    /\ Len(ops) < MaxCounterCalls
    /\ context_storage' = clear_context(context_storage)
    /\ ops' = Append(ops, Op("clear_context", "", PyNone, PyNone))
    /\ StoreFrame

\* an agent's model saves a value under the counter's key
CounterSaveEventContext(v) ==
    /\ Len(ops) < MaxCounterCalls
    /\ context_storage' = save_event_context(context_storage, "questions_asked", v)
    /\ ops' = Append(ops, Op("save_event_context", "questions_asked", v,
                             SavedMessage("questions_asked")))
    /\ StoreFrame

NextCounter ==
    \/ CounterIncrementQuestions
    \/ CounterGetQuestionsRemaining
    \/ CounterClearContext
    \/ \E v \in CallValues : CounterSaveEventContext(v)

SpecCounter == InitCounter /\ [][NextCounter]_vars

----------------------------------------------------------------------------
(* C23 *)

\* number of calls named nm in the record of calls
RECURSIVE C23_Count(_, _)
C23_Count(s, nm) ==
    IF s = << >> THEN 0
    ELSE (IF Head(s).name = nm THEN 1 ELSE 0) + C23_Count(Tail(s), nm)

\* nothing but increment_questions and get_questions_remaining has been called
C23_OnlyIncrements(s) ==
    \A i \in 1..Len(s) : s[i].name \in {"increment_questions", "get_questions_remaining"}

C23_Step ==
    (Len(ops') = Len(ops) + 1 /\ ops'[Len(ops')].name = "get_questions_remaining") =>
        LET ret   == ops'[Len(ops')].ret
            n     == C23_Count(ops, "increment_questions")
            asked == context_storage["questions_asked"]
            max_q == context_storage["max_questions"]
        IN  /\ context_storage' = context_storage
            \* n increments from the initial context: 3 - n, and 0 from n = 3 on
            /\ C23_OnlyIncrements(ops) =>
                   /\ max_q = PyInt(3)
                   /\ ret = PyInt(IF n <= 3 THEN 3 - n ELSE 0)
            \* a returned value is never negative and is what the stored
            \* max_questions leaves after the stored count
            /\ ret.tag # "raise" =>
                   /\ ret.tag = "int" /\ ret.n >= 0
                   /\ max_q.tag = "int" /\ asked.tag = "int"
                   /\ ret.n <= max_q.n \/ max_q.n < 0
                   /\ asked.n <= max_q.n => ret.n = max_q.n - asked.n
                   /\ asked.n > max_q.n => ret.n = 0

\* C23: after n calls of increment_questions from the initial context
\* get_questions_remaining returns max_questions - n while that is non-negative and
\* 0 afterwards; what it returns is never negative and agrees with the
\* max_questions entry of the store (3 initially).
C23_QuestionsRemaining == [][C23_Step]_vars

\* four increments from the initial context, then the call that returns 0
C23_Witness ==
    /\ script = "counter"
    /\ Len(ops) = 5
    /\ \A i \in 1..4 : ops[i].name = "increment_questions"
    /\ ops[5].name = "get_questions_remaining"
    /\ ops[5].ret = PyInt(0)
    /\ context_storage["questions_asked"] = PyInt(4)

----------------------------------------------------------------------------
(* C24 *)

\* number of increment_questions calls since the last clear_context (or the start)
RECURSIVE C24_SinceReset(_)
C24_SinceReset(s) ==
    IF s = << >> THEN 0
    ELSE LET last == s[Len(s)]
             init == SubSeq(s, 1, Len(s) - 1)
         IN  CASE last.name = "clear_context"       -> 0
               [] last.name = "increment_questions" -> C24_SinceReset(init) + 1
               [] OTHER                             -> C24_SinceReset(init)

\* the counter is the number of calls since the last reset
C24_Inv == context_storage["questions_asked"] = PyInt(C24_SinceReset(ops))

\* a call adds exactly 1, returns the new value and leaves the other keys alone
C24_Step ==
    (Len(ops') = Len(ops) + 1 /\ ops'[Len(ops')].name = "increment_questions") =>
        LET ret == ops'[Len(ops')].ret
            old == context_storage["questions_asked"]
        IN  /\ ret.tag = "int"
            /\ old.tag = "int" /\ ret.n = old.n + 1
            /\ context_storage'["questions_asked"] = ret
            /\ \A k \in Keys \ {"questions_asked"} : context_storage'[k] = context_storage[k]
            /\ ret.n = C24_SinceReset(ops')

\* C24: increment_questions adds exactly 1 to questions_asked, returns the new
\* value and changes no other key; the k-th call since the start or since
\* clear_context returns k, and the counter always equals the number of calls
\* since the last reset.
C24_IncrementQuestions == [](C24_Inv) /\ [][C24_Step]_vars

----------------------------------------------------------------------------
(* C25 *)

\* every item of a finished branch comes from the agent that was launched
C25_OwnItems(b) ==
    \A j \in 1..Len(b.new_items) :
        ~ IsHandoff(b.new_items[j]) /\ b.new_items[j].agent = b.agent

C25_Inv ==
    \A i \in 1..Len(batch) :
        /\ handoffs[batch[i].agent] = {}
        /\ batch[i].status = "done" => C25_OwnItems(batch[i])

\* no step taken while a batch is in flight assigns current_agent
C25_Step == batch # << >> => current_agent' = current_agent

\* C25: no agent launched inside a fan-out batch has a handoff target, the items
\* of a finished branch all come from the agent that was launched, and no step of
\* a batch in flight changes current_agent.
C25_BranchesDoNotHandOff == [](C25_Inv) /\ [][C25_Step]_vars

\* the enrichment batch with a branch back, ReviewerAgent still the current agent
C25_Witness ==
    /\ pc = "gather_enrich"
    /\ current_agent = "ReviewerAgent"
    /\ \E i \in 1..Len(batch) : batch[i].status = "done" /\ HasMessage(batch[i].new_items)

----------------------------------------------------------------------------
(* C26 *)

\* the store holds an entry under key k
C26_Holds(k) == context_storage[k] # Absent

\* main() runs ReviewerAgent after a plan has been selected
C26_ReviewerInvoked ==
    call # NoCall /\ call.agent = "ReviewerAgent" /\ C26_Holds("final_plan")

\* C26: whenever ReviewerAgent is invoked after plan selection, the context store
\* already holds final_plan, vendor_recommendations and budget_estimate, i.e. the
\* enrichment batch and its writes precede the invocation.
C26_ReviewerSeesEnrichedPlan ==
    C26_ReviewerInvoked =>
        C26_Holds("vendor_recommendations") /\ C26_Holds("budget_estimate")

----------------------------------------------------------------------------
(* One step of the dispatch loops of 02-agent-mcp-calendar.py and init.py, item by
   item: the run returns, the for loop prints, current_agent is assigned *)

\* the lines the loops print
MessageLine(a, t) == [kind |-> "message",  name |-> a, text |-> t]
TransferLine(b)   == [kind |-> "transfer", name |-> b, text |-> << >>]
CalendarLine      == [kind |-> "calendar", name |-> "none", text |-> << >>]
ToolLine(a)       == [kind |-> "tool",     name |-> a, text |-> << >>]

\* 02-agent-mcp-calendar.py: what the loop body prints for one item.  For a tool
\* call it depends on the item's attributes and on the tool's name: the calendar
\* line, the "Using tool" line, or nothing.
McpRender(item) ==
    CASE IsMessage(item) -> { <<MessageLine(item.agent, item.text)>> }
      [] IsHandoff(item) -> { <<TransferLine(item.target)>> }
      [] OTHER           -> { << >>, <<CalendarLine>>, <<ToolLine(item.agent)>> }

\* init.py, the loop after the regular run: messages and handoffs only
PaRender(item) ==
    CASE IsMessage(item) -> { <<MessageLine(item.agent, item.text)>> }
      [] IsHandoff(item) -> { <<TransferLine(item.target)>> }
      [] OTHER           -> { << >> }

RenderOf(s, item) == IF s = "mcp" THEN McpRender(item) ELSE PaRender(item)

\* the agents that can be current when a dispatch loop prompts the user
PromptAgents(s) ==
    IF s = "mcp" THEN McpAgents
    ELSE {"NegotiatorAgent", "PlanningOrchestrator", "ReviewerAgent"}

InitRender ==
    /\ script \in PlanningScripts
    /\ pc = "prompt"
    /\ handoffs = HandoffsOf(script)
    /\ current_agent \in PromptAgents(script)
    /\ user_input = << >>
    /\ call = NoCall
    /\ result = NoResult
    /\ batch = << >>
    /\ questions_asked = 0
    /\ context_storage = InitialContext
    /\ ops = << >>
    /\ halt = "none"
    /\ error = NoError
    /\ agents = ConstructedOf(script)
    /\ conversations_db = NoSession
    /\ rendered = << >>
    /\ cursor = 0
    /\ tools = ToolsOf(script)
    /\ mcp_servers = ConnectorsOf(script)
    /\ exiting = FALSE

\* Runner.run returns and its result is bound: the for loop starts
StepReturns(att) ==
    /\ pc \in {"await_run", "await_main"}
    /\ LET r == RunResult(handoffs, call.agent, att)
       IN  /\ r.ok
           /\ result' = Bound(r)
    /\ rendered' = << >>
    /\ cursor' = 0
    /\ pc' = "render"
    /\ call' = NoCall
    /\ UNCHANGED << exiting, tools, mcp_servers, script, agents, conversations_db, handoffs, current_agent, user_input, batch,
                    questions_asked, context_storage, ops, halt, error >>

\* the renderings of the items of the result
RenderChoices ==
    UNION { RenderOf(script, result.new_items[i]) : i \in 1..Len(result.new_items) }

\* variant: the loop walks the items from the last to the first
RenderItemBackwards(lines) ==
    /\ pc = "render"
    /\ cursor < Len(result.new_items)
    /\ lines \in RenderOf(script, result.new_items[Len(result.new_items) - cursor])
    /\ rendered' = rendered \o lines
    /\ cursor' = cursor + 1
    /\ UNCHANGED << exiting, tools, mcp_servers, script, agents, conversations_db, pc, handoffs, current_agent, user_input, call,
                    result, batch, questions_asked, context_storage, ops, halt, error >>

\* one pass of the loop body: the next item of result.new_items is printed
RenderItem(lines) ==
    /\ pc = "render"
    /\ cursor < Len(result.new_items)
    /\ lines \in RenderOf(script, result.new_items[cursor + 1])
    /\ rendered' = rendered \o lines
    /\ cursor' = cursor + 1
    /\ UNCHANGED << exiting, tools, mcp_servers, script, agents, conversations_db, pc, handoffs, current_agent, user_input, call,
                    result, batch, questions_asked, context_storage, ops, halt, error >>

\* the loop is through: `current_agent = result.last_agent`, then the terminal test
\* (02-agent-mcp-calendar.py) or the top of `while True` (init.py)
RenderEnd ==
    /\ pc = "render"
    /\ cursor = Len(result.new_items)
    /\ current_agent' = result.last_agent
    /\ IF script = "mcp"
       THEN /\ IF McpTerminal(result.last_agent, result.new_items)
               THEN pc' = "done" /\ halt' = "complete"
               ELSE pc' = "prompt" /\ halt' = halt
            /\ call' = call
            /\ questions_asked' = questions_asked
       ELSE /\ PaLoopTop(result.last_agent)
            /\ halt' = halt
    /\ UNCHANGED << exiting, tools, mcp_servers, script, agents, conversations_db, handoffs, user_input, result, batch,
                    context_storage, ops, error, rendered, cursor >>

NextRender ==
    \/ \E line \in RawInputs : McpReadInput(line)
    \/ \E line \in RawInputs : PaReadInput(line)
    \/ \E att \in Attempts(script, handoffs, call.agent) : StepReturns(att)
    \/ \E lines \in RenderChoices : RenderItem(lines)
    \/ RenderEnd
    \/ RunRaises
    \/ \E hops \in AskedHops(script, handoffs, call.agent) : RunRejectsHandoff(hops)

SpecRender == InitRender /\ [][NextRender]_vars

----------------------------------------------------------------------------
(* C27 *)

\* the line that shows a message or a handoff
C27_Line(item) ==
    IF IsMessage(item) THEN MessageLine(item.agent, item.text)
    ELSE TransferLine(item.target)

\* the line is one a tool call may be shown by
C27_ToolLine(line, item) == line \in {CalendarLine, ToolLine(item.agent)}

\* `lines` shows `items` in their order: every message and handoff by its line,
\* a tool call by a line of its own or not at all
RECURSIVE C27_InOrder(_, _)
C27_InOrder(lines, items) ==
    IF items = << >> THEN lines = << >>
    ELSE LET item == Head(items)
         IN  IF item.type = "tool_call"
             THEN \/ C27_InOrder(lines, Tail(items))
                  \/ /\ lines # << >>
                     /\ C27_ToolLine(Head(lines), item)
                     /\ C27_InOrder(Tail(lines), Tail(items))
             ELSE /\ lines # << >>
                  /\ Head(lines) = C27_Line(item)
                  /\ C27_InOrder(Tail(lines), Tail(items))

\* what has been printed shows the items consumed so far, in their order
C27_Inv ==
    pc = "render" =>
        /\ cursor <= Len(result.new_items)
        /\ C27_InOrder(rendered, SubSeq(result.new_items, 1, cursor))

\* current_agent is assigned only when the loop is through with all the items
C27_Step ==
    /\ current_agent' # current_agent =>
          /\ pc = "render"
          /\ cursor = Len(result.new_items)
          /\ C27_InOrder(rendered, result.new_items)
          /\ current_agent' = result.last_agent
    /\ (pc = "render" /\ cursor < Len(result.new_items)) =>
          /\ current_agent' = current_agent
          /\ result' = result
          /\ cursor' = cursor + 1

\* C27: within one step the items of the result are rendered in exactly the order
\* the invocation produced them, and current_agent is updated only after all items
\* of the step have been consumed.
C27_RenderedInOrder == [](C27_Inv) /\ [][C27_Step]_vars

\* a handoff and the new agent's message are printed, current_agent not yet assigned
C27_Witness ==
    /\ pc = "render"
    /\ Len(result.new_items) >= 2
    /\ cursor = Len(result.new_items)
    /\ Len(rendered) >= 2
    /\ rendered[Len(rendered) - 1].kind = "transfer"
    /\ rendered[Len(rendered)].kind = "message"
    /\ current_agent # result.last_agent

----------------------------------------------------------------------------
(* C28 *)

\* the sets are the ones the setup pass assigned
C28_Inv ==
    /\ handoffs = HandoffsOf(script)
    /\ tools = ToolsOf(script)
    /\ mcp_servers = ConnectorsOf(script)

\* no step changes an agent's handoffs, tools or connectors, or the agents there are
C28_Step ==
    /\ handoffs' = handoffs
    /\ tools' = tools
    /\ mcp_servers' = mcp_servers
    /\ agents' = agents

\* C28: once the setup pass has assigned the handoff sets, no action of the
\* dispatch loop, of a fan-out batch or of a tool changes any agent's handoff set,
\* tool set or connector set for the rest of the process.
C28_EdgesFixedAfterSetup == [](C28_Inv) /\ [][C28_Step]_vars

\* a run that went through handoffs to its end, the sets as assigned
C28_Witness ==
    /\ halt = "complete"
    /\ current_agent = "CalendarAgent"
    /\ handoffs["ReviewerAgent"] = {"CalendarAgent", PlannerOf(script)}
    /\ "save_event_context" \in tools[PlannerOf(script)]
    /\ mcp_servers["CalendarAgent"] = {"GoogleCalendar"}

----------------------------------------------------------------------------
(* C29 *)

\* main() runs CalendarAgent on "Execute the approved plan"
C29_Executing ==
    call # NoCall /\ call.agent = "CalendarAgent" /\ call.input = ExecutePrompt

\* C29: whenever CalendarAgent is invoked in init.py with "Execute the approved
\* plan", the context store holds a final_plan entry, written by the
\* plan-selection step earlier in the run.
C29_ExecutesStoredPlan == C29_Executing => context_storage["final_plan"] # Absent

----------------------------------------------------------------------------
(* init.py from the first input to the end of the enrichment batch: the three
   gathers with the tool calls of their branches, and the runs that merge them *)

InitBatches == Init /\ script = "pa"

NextBatches ==
    \/ \E line \in RawInputs : PaFirstInput(line)
    \/ \E i \in 1..Len(batch) : \E k \in SaveKeys, v \in SaveValues : BranchSaves(i, k, v)
    \/ \E i \in 1..Len(batch) : \E att \in Attempts(script, handoffs, batch[i].agent) : BranchReturns(i, att)
    \/ \E i \in 1..Len(batch) : BranchRaises(i)
    \/ \E i \in 1..Len(batch) : \E hops \in AskedHops(script, handoffs, batch[i].agent) :
            BranchRejectsHandoff(i, hops)
    \/ PaJoinConflict
    \/ \E att \in Attempts(script, handoffs, call.agent) : PaOrchReturns(att)
    \/ \E att \in Attempts(script, handoffs, call.agent) : PaContinueReturns(att)
    \/ PaJoinPlans
    \/ \E att \in Attempts(script, handoffs, call.agent) : PaSelectReturns(att)
    \/ PaJoinEnrich
    \/ RunRaises
    \/ \E hops \in AskedHops(script, handoffs, call.agent) : RunRejectsHandoff(hops)

SpecBatches == InitBatches /\ [][NextBatches]_vars

----------------------------------------------------------------------------
(* C30 *)

\* the plan-generation and the enrichment batch are in flight
C30_InFlight == pc \in {"gather_plans", "gather_enrich"}

C30_EnrichmentKeys == {"vendor_recommendations", "budget_estimate"}

\* no branch of the two batches holds a writing tool or has written
C30_Inv ==
    C30_InFlight =>
        \A i \in 1..Len(batch) :
            /\ batch[i].agent \in Range(PlanBranches) \cup Range(EnrichBranches)
            /\ tools[batch[i].agent] \cap WritingTools = {}
            /\ batch[i].saved = << >>

C30_Step ==
    \* from launch to join the store stays as it is
    /\ (C30_InFlight /\ (pc' = pc \/ halt' = "error")) => context_storage' = context_storage
    /\ pc = "gather_plans" => context_storage' = context_storage
    \* the enrichment join writes its two entries and nothing else
    /\ (pc = "gather_enrich" /\ pc' # pc /\ halt' # "error") =>
          /\ AllDone(batch)
          /\ context_storage'["vendor_recommendations"] = PyStr(BranchText(batch, 1))
          /\ context_storage'["budget_estimate"] = PyStr(BranchText(batch, 2))
          /\ \A k \in Keys \ C30_EnrichmentKeys : context_storage'[k] = context_storage[k]
    \* the three entries are written by the code after a join only
    /\ context_storage'["final_plan"] # context_storage["final_plan"]
          => pc = "await_select" /\ batch = << >>
    /\ (\E k \in C30_EnrichmentKeys : context_storage'[k] # context_storage[k])
          => pc = "gather_enrich" /\ AllDone(batch) /\ batch' = << >>

----------------------------------------------------------------------------
(* C31 *)

\* the entry is a non-negative integer
C31_Inv ==
    LET asked == context_storage["questions_asked"]
    IN  asked.tag = "int" /\ asked.n >= 0

\* the entry changes by +1 in increment_questions or to 0 in clear_context, and
\* no call of increment_questions raises
C31_Step ==
    LET old == context_storage["questions_asked"]
        new == context_storage'["questions_asked"]
        op  == ops'[Len(ops')]
    IN  Len(ops') = Len(ops) + 1 =>
            /\ new # old =>
                  \/ op.name = "increment_questions" /\ old.tag = "int" /\ new = PyInt(old.n + 1)
                  \/ op.name = "clear_context" /\ new = PyInt(0)
            /\ op.name = "increment_questions" => op.ret.tag # "raise"

\* C31: the questions_asked entry of the context store is a non-negative integer
\* in every reachable state and changes only by +1 (increment_questions) or by
\* reset to 0 (clear_context); no sequence of calls puts a non-integer under it or
\* makes a later increment_questions fail.
C31_CounterIsInteger == [](C31_Inv) /\ [][C31_Step]_vars

----------------------------------------------------------------------------
(* personal-assitant/init_viz.py: the graph handed to draw_graph *)

\* conflict_orchestrator is built with its handoffs, three more are assigned, and
\* calendar_agent keeps the empty default
VizHandoffs ==
    [a \in PaGraphAgents |->
        CASE a = "ConflictOrchestrator" -> {"NegotiatorAgent", "PlanningOrchestrator"}
          [] a = "NegotiatorAgent"      -> {"PlanningOrchestrator"}
          [] a = "PlanningOrchestrator" -> {"ReviewerAgent"}
          [] a = "ReviewerAgent"        -> {"CalendarAgent", "PlanningOrchestrator"}
          [] a = "CalendarAgent"        -> {}]

----------------------------------------------------------------------------
(* C32 *)

\* the edge a -> b lies on a cycle of h
C32_OnCycle(h, a, b) == b \in h[a] /\ a \in DeclaredReach(h, b)

\* the shape of the graph h over the agents G with the given planner
C32_Shape(h, G, planner) ==
    /\ \A a \in G : a \notin h[a]
    /\ \A a \in G : h[a] \subseteq G
    /\ \A a \in G : h[a] = {} <=> a = "CalendarAgent"
    /\ \A a \in G : "CalendarAgent" \in DeclaredReach(h, a)
    /\ C32_OnCycle(h, planner, "ReviewerAgent")
    /\ C32_OnCycle(h, "ReviewerAgent", planner)
    /\ \A a, b \in G :
          C32_OnCycle(h, a, b) => {a, b} = {planner, "ReviewerAgent"}

\* C32: in both planning scripts (and in init_viz.py) no agent lists itself as a
\* handoff target, CalendarAgent is the only agent of the graph with an empty
\* handoff set, CalendarAgent is reachable from every agent of the graph, and the
\* only cycle is planner <-> ReviewerAgent.
C32_GraphShape ==
    script \in PlanningScripts =>
        /\ C32_Shape(handoffs, TargetsOf(script), PlannerOf(script))
        /\ C32_Shape(VizHandoffs, PaGraphAgents, "PlanningOrchestrator")

\* a run went round the cycle: ReviewerAgent handed back to the planner
C32_Witness ==
    /\ script \in PlanningScripts
    /\ current_agent = PlannerOf(script)
    /\ \E i \in 1..Len(result.new_items) :
          /\ IsHandoff(result.new_items[i])
          /\ result.new_items[i].agent = "ReviewerAgent"
          /\ result.new_items[i].target = PlannerOf(script)

----------------------------------------------------------------------------
(* The planning scripts with a user who, from some point on, answers every
   prompt with an exit word, and with invocations that all return *)

\* what the user types: a request or an answer before the decision, an exit word
\* from the decision on
TypedLines ==
    IF exiting THEN { line \in RawInputs : Lower(Strip(line)) \in ExitTokens }
    ELSE { <<"y","e","s">>, <<" ","e","x","i","t"," ","x">> }

InitExit == Init /\ script \in PlanningScripts

\* the user makes up their mind to leave
DecideExit ==
    /\ ~ exiting
    /\ halt = "none"
    /\ exiting' = TRUE
    /\ UNCHANGED << script, pc, handoffs, current_agent, user_input, call, result, batch,
                    questions_asked, context_storage, ops, halt, error, agents,
                    conversations_db, rendered, cursor, tools, mcp_servers >>

\* the steps of the scripts themselves
RunsAndReads ==
    \/ \E line \in TypedLines : McpReadInput(line)
    \/ \E att \in Attempts(script, handoffs, call.agent) : McpRunReturns(att)
    \/ \E i \in 1..Len(batch) : \E att \in Attempts(script, handoffs, batch[i].agent) : BranchReturns(i, att)
    \/ \E line \in TypedLines : PaFirstInput(line)
    \/ PaJoinConflict
    \/ \E att \in Attempts(script, handoffs, call.agent) : PaOrchReturns(att)
    \/ \E att \in Attempts(script, handoffs, call.agent) : PaContinueReturns(att)
    \/ \E line \in TypedLines : PaAnswer(line)
    \/ \E att \in Attempts(script, handoffs, call.agent) : PaAnswerReturns(att)
    \/ PaJoinPlans
    \/ \E att \in Attempts(script, handoffs, call.agent) : PaSelectReturns(att)
    \/ PaJoinEnrich
    \/ \E att \in Attempts(script, handoffs, call.agent) : PaExecuteReturns(att)
    \/ \E line \in TypedLines : PaReadInput(line)
    \/ \E att \in Attempts(script, handoffs, call.agent) : PaRunReturns(att)

NextExit == DecideExit \/ RunsAndReads

\* every prompt is answered and every invocation returns
SpecExit == InitExit /\ [][NextExit]_vars /\ WF_vars(RunsAndReads)

----------------------------------------------------------------------------
(* C33 *)

\* tasks of the gather in flight that have not returned
C33_Running == Cardinality({ i \in 1..Len(batch) : batch[i].status = "running" })

\* how far the session is from its end when every prompt is answered with an
\* exit word: 0 when main() has stopped, and smaller after every step
C33_Rank ==
    CASE pc = "done"            -> 0
      [] pc \in {"prompt", "first_prompt", "await_execute"} -> 1
      [] pc = "await_run"       -> 2
      [] pc = "gather_enrich"   -> 2 + C33_Running
      [] pc = "await_select"    -> 5
      [] pc = "gather_plans"    -> 6 + C33_Running
      [] pc = "await_continue"  -> 10 + 3 * (QuestionLimit - questions_asked)
      [] pc = "question_prompt" -> 9 + 3 * (QuestionLimit - questions_asked)
      [] pc = "await_answer"    -> 8 + 3 * (QuestionLimit - questions_asked)
      [] pc \in {"await_orch", "await_main"} -> 11 + 3 * QuestionLimit
      [] pc = "gather_conflict" -> 12 + 3 * QuestionLimit + C33_Running
      [] OTHER                  -> 100

\* main() is suspended in an await, on one invocation or on a gather of several:
\* that these return is what the claim assumes
C33_Awaiting == call # NoCall \/ pc \in GatherPcs

\* the user answers the prompt main() has put up
C33_Answers ==
    \/ \E line \in TypedLines : McpReadInput(line)
    \/ \E line \in TypedLines : PaFirstInput(line)
    \/ \E line \in TypedLines : PaAnswer(line)
    \/ \E line \in TypedLines : PaReadInput(line)

\* the session has stopped exactly at rank 0, and until then it is suspended in
\* an await or at a prompt that takes an exit word for an answer
C33_Inv ==
    /\ halt = "none" <=> C33_Rank > 0
    /\ (exiting /\ halt = "none") => (C33_Awaiting \/ ENABLED C33_Answers)

C33_Step ==
    \* with the user leaving, every step of the script brings the end nearer, and
    \* no run on a typed line is started any more: the pass of the loop that is
    \* under way is the last
    /\ (exiting /\ exiting') =>
          /\ C33_Rank' < C33_Rank
          /\ pc' \in {"await_run", "await_main"} => pc' = pc
    \* main() stops through an exit word at a prompt or through CalendarAgent
    /\ halt' # halt =>
          \/ /\ halt' = "goodbye"
             /\ pc \in {"prompt", "first_prompt"}
             /\ IsExit(user_input')
          \/ /\ halt' = "complete"
             /\ IF script = "mcp"
                THEN McpTerminal(current_agent', result'.new_items)
                ELSE pc = "await_execute" /\ call.agent = "CalendarAgent"

\* C33: if every agent invocation returns and the user answers every prompt with
\* an exit word, the session halts, in init.py within the pass of the outer loop
\* that is under way; and in both scripts the dispatch loop halts only through a
\* user exit or through the CalendarAgent terminal condition.
C33_TerminationUnderExit == [](C33_Inv) /\ [][C33_Step]_vars

\* the user left after a plan had been selected
C33_Witness ==
    /\ exiting
    /\ script = "pa"
    /\ halt = "goodbye"
    /\ context_storage["final_plan"] # Absent
    /\ questions_asked > 0

====
